---- MODULE Spec2Model ----
(***************************************************************************)
(* Model of the provisioning / teardown orchestrator scripts               *)
(*   macos_linux_installation/first_configuration.py                       *)
(*   windows_scripts/first_configuration_win.py                            *)
(*   macos_linux_scripts/destroy_infrastructure.py                         *)
(*   windows_installation/destroy_infrastructure_win.py                    *)
(* Text (file contents, bucket names) is a sequence of one-character       *)
(* strings, so that the string functions of the scripts (strip, lower,     *)
(* startswith, split, splitlines) are computed the way Python computes     *)
(* them.                                                                   *)
(***************************************************************************)
EXTENDS Integers, Sequences, FiniteSets, TLC

VARIABLES
    script,      \* which script is running
    pc,          \* position of the running script
    exitCode,    \* Running, else the exit status of the process
    descriptor,  \* ROOT/backend.hcl: NoFile, Unreadable, or its text
    frontend_env, \* ROOT/s3_website/code/.env.local: NoFile or its text
    log,         \* external commands issued so far in this run, in order
    console,     \* warnings printed so far in this run, in order
    loc,         \* local variables of main
    drain        \* frame of s3_empty_bucket

vars == <<script, pc, exitCode, descriptor, frontend_env, log, console, loc, drain>>

\* A text is a sequence of one-character strings.  The values that are not a
\* text are one-element sequences holding a longer token, so that they can be
\* compared with texts.
NoText == <<"None">>             \* Python's None where a str is expected
NoFile == <<"NoFile">>           \* the path does not exist
Unreadable == <<"Unreadable">>   \* the path exists but read_text raises

\* Python's True / False / None where a bool | None is expected
PyTrue == "True"
PyFalse == "False"
None == "None"
PyBool(b) == IF b THEN PyTrue ELSE PyFalse

\* value of exitCode while the process has not ended
Running == -1

(***************************************************************************)
(* Text helpers                                                            *)
(***************************************************************************)
Whitespace == {" ", "\t", "\n", "\r"}
LineBreaks == {"\n", "\r"}

UpperChars == <<"A","B","C","D","E","F","G","H","I","J","K","L","M",
                "N","O","P","Q","R","S","T","U","V","W","X","Y","Z">>
LowerChars == <<"a","b","c","d","e","f","g","h","i","j","k","l","m",
                "n","o","p","q","r","s","t","u","v","w","x","y","z">>

LowerChar(c) ==
    IF \E i \in 1..Len(UpperChars) : UpperChars[i] = c
    THEN LowerChars[CHOOSE i \in 1..Len(UpperChars) : UpperChars[i] = c]
    ELSE c

\* str.lower()
Lower(s) == [i \in 1..Len(s) |-> LowerChar(s[i])]

\* str.strip(): drop leading and trailing whitespace
Strip(s) ==
    LET keep == {i \in 1..Len(s) : s[i] \notin Whitespace}
    IN  IF keep = {} THEN <<>>
        ELSE LET lo == CHOOSE i \in keep : \A j \in keep : i <= j
                 hi == CHOOSE i \in keep : \A j \in keep : j <= i
             IN  SubSeq(s, lo, hi)

\* str.strip(chars) for a set of characters
StripChars(s, chars) ==
    LET keep == {i \in 1..Len(s) : s[i] \notin chars}
    IN  IF keep = {} THEN <<>>
        ELSE LET lo == CHOOSE i \in keep : \A j \in keep : i <= j
                 hi == CHOOSE i \in keep : \A j \in keep : j <= i
             IN  SubSeq(s, lo, hi)

\* str.startswith(p)
StartsWith(s, p) == Len(p) <= Len(s) /\ SubSeq(s, 1, Len(p)) = p

\* positions at which p occurs in s
Occurrences(s, p) ==
    {i \in 1..(Len(s) - Len(p) + 1) : SubSeq(s, i, i + Len(p) - 1) = p}

\* p in s
Contains(s, p) == Occurrences(s, p) # {}

\* s.split(p, 1)[-1]: the text after the first occurrence of p (s itself if none)
AfterFirst(s, p) ==
    IF Occurrences(s, p) = {} THEN s
    ELSE LET i == CHOOSE k \in Occurrences(s, p) : \A j \in Occurrences(s, p) : k <= j
         IN  SubSeq(s, i + Len(p), Len(s))

\* s.split(p)[-1]: the text after the last occurrence of p (s itself if none)
AfterLast(s, p) ==
    IF Occurrences(s, p) = {} THEN s
    ELSE LET i == CHOOSE k \in Occurrences(s, p) : \A j \in Occurrences(s, p) : j <= k
         IN  SubSeq(s, i + Len(p), Len(s))

\* str.splitlines(): break at \n, \r and \r\n; no trailing empty line
RECURSIVE SplitLines(_)
SplitLines(t) ==
    IF t = <<>> THEN <<>>
    ELSE LET brk == {i \in 1..Len(t) : t[i] \in LineBreaks}
         IN  IF brk = {} THEN <<t>>
             ELSE LET i == CHOOSE k \in brk : \A j \in brk : k <= j
                      n == IF t[i] = "\r" /\ i < Len(t) /\ t[i + 1] = "\n"
                           THEN i + 2 ELSE i + 1
                  IN  <<SubSeq(t, 1, i - 1)>> \o SplitLines(SubSeq(t, n, Len(t)))

(***************************************************************************)
(* Literal texts of the scripts                                            *)
(***************************************************************************)
Hash == <<"#">>
MetaKey == <<"m","e","t","a",".","t","e","s","t","_","v","i","a","_","u","i","=">>
TrueText == <<"t","r","u","e">>
FalseText == <<"f","a","l","s","e">>
NL == <<"\n">>
Quote == <<"\"">>
BucketLhs == <<"b","u","c","k","e","t"," "," ","="," ">>
KeyLhs == <<"k","e","y"," "," "," "," "," ","="," ">>
RegionLhs == <<"r","e","g","i","o","n"," "," ","="," ">>
EncryptLine == <<"e","n","c","r","y","p","t"," ","="," ","t","r","u","e">>
ArnPrefix == <<"a","r","n",":","a","w","s",":","s","3",":",":",":">>

(***************************************************************************)
(* Metadata channel                                                        *)
(***************************************************************************)
\* Variant of the write that appends the metadata line after the settings.
write_backend_hcl_meta_last(bucket, key, region, test_via_ui) ==
    BucketLhs \o Quote \o bucket \o Quote \o NL
    \o KeyLhs \o Quote \o key \o Quote \o NL
    \o RegionLhs \o Quote \o region \o Quote \o NL
    \o EncryptLine \o NL
    \o Hash \o <<" ">> \o MetaKey \o (IF test_via_ui THEN TrueText ELSE FalseText) \o NL

\* The text write_backend_hcl_with_meta writes to the descriptor.
write_backend_hcl_with_meta(bucket, key, region, test_via_ui) ==
    LET meta_line == Hash \o <<" ">> \o MetaKey
                     \o (IF test_via_ui THEN TrueText ELSE FalseText) \o NL
    IN  meta_line
        \o BucketLhs \o Quote \o bucket \o Quote \o NL
        \o KeyLhs \o Quote \o key \o Quote \o NL
        \o RegionLhs \o Quote \o region \o Quote \o NL
        \o EncryptLine \o NL

\* What one line of the descriptor decides: True, False, or None (keep scanning).
MetaOfLine(line) ==
    LET s == Lower(Strip(line))
    IN  IF StartsWith(s, Hash) /\ Contains(s, MetaKey)
        THEN LET val == Strip(AfterFirst(s, MetaKey))
             IN  IF val \in {TrueText, FalseText} THEN PyBool(val = TrueText) ELSE None
        ELSE None

\* Variant of the scan that answers False when no line decides.
RECURSIVE ScanLinesDefaultFalse(_)
ScanLinesDefaultFalse(lines) ==
    IF lines = <<>> THEN PyFalse
    ELSE IF MetaOfLine(Head(lines)) # None THEN MetaOfLine(Head(lines))
    ELSE ScanLinesDefaultFalse(Tail(lines))

\* The first decisive line decides; None when no line decides.
RECURSIVE ScanLines(_)
ScanLines(lines) ==
    IF lines = <<>> THEN None
    ELSE IF MetaOfLine(Head(lines)) # None THEN MetaOfLine(Head(lines))
    ELSE ScanLines(Tail(lines))

\* read_backend_meta_test_via_ui: True / False / None, never an exception.
read_backend_meta_test_via_ui(file) ==
    IF file = NoFile THEN None
    ELSE IF file = Unreadable THEN None
    ELSE ScanLines(SplitLines(file))

(***************************************************************************)
(* State shared by all scripts                                             *)
(***************************************************************************)
\* a local variable that has not been assigned yet
Unset == "unset"

\* main's local variables before any of them is assigned
NoLocals ==
    [release_ui |-> None, meta_test_via_ui |-> None, bucket |-> NoText,
     website_bucket |-> NoText, backend_bucket |-> NoText, confirm |-> Unset,
     pkg_lock |-> Unset, dist |-> Unset, alt_build |-> Unset,
     need |-> [aws |-> Unset, terraform |-> Unset, npm |-> Unset, node |-> Unset],
     cancelled |-> Unset, region |-> NoText, env |-> Unset]

\* the frame of s3_empty_bucket when it is not running
NoDrain ==
    [bucket |-> NoText, KeyMarker |-> NoText, VersionIdMarker |-> NoText,
     to_delete |-> <<>>, i |-> 0, IsTruncated |-> FALSE,
     NextKeyMarker |-> NoText, NextVersionIdMarker |-> NoText,
     lists |-> 0, ret |-> "none"]

(***************************************************************************)
(* Metadata channel on its own: the descriptor is written by               *)
(* write_backend_hcl_with_meta, or put there by something else, and read   *)
(* by read_backend_meta_test_via_ui.                                       *)
(***************************************************************************)
UpperMetaKey == <<"M","E","T","A",".","T","E","S","T","_","V","I","A","_","U","I","=">>
SomeBucket == <<"t","f","-","s","t","a","t","e">>
SomeKey == <<"t","e","r","r","a","f","o","r","m",".","t","f","s","t","a","t","e">>
SomeRegion == <<"e","u","-","c","e","n","t","r","a","l","-","1">>

\* argument values for the write; one holds a line break followed by a
\* metadata line of its own
MetaBuckets ==
    {SomeBucket, <<"x">> \o NL \o Hash \o <<" ">> \o MetaKey \o TrueText \o NL \o <<"y">>}
MetaKeys == {SomeKey, <<"k">> \o <<"\r">> \o Hash \o MetaKey \o FalseText}
MetaRegions == {SomeRegion, <<>>}

\* lines a descriptor not written by the script may hold
ForeignLines ==
    { <<>>,
      BucketLhs \o Quote \o SomeBucket \o Quote,
      Hash \o <<" ","n","o","t","e">>,
      MetaKey \o TrueText,
      Hash \o <<" ">> \o MetaKey \o <<"m","a","y","b","e">>,
      Hash \o <<" ">> \o MetaKey \o TrueText \o <<" ","#"," ","n","o","t","e">>,
      <<" "," ">> \o Hash \o <<" ">> \o UpperMetaKey \o <<"T","R","U","E"," ">>,
      Hash \o MetaKey \o <<" ">> \o FalseText,
      <<"x"," ">> \o Hash \o <<" ">> \o MetaKey \o TrueText }

ForeignFiles ==
    {NoFile, Unreadable, <<>>}
    \cup ForeignLines
    \cup {a \o NL \o b : a \in ForeignLines, b \in ForeignLines}
    \cup {a \o NL : a \in ForeignLines}

InitMeta ==
    /\ script = "none"
    /\ pc = "meta_idle"
    /\ exitCode = Running
    /\ descriptor \in ForeignFiles
    /\ frontend_env = NoFile
    /\ log = <<>>
    /\ console = <<>>
    /\ loc = NoLocals
    /\ drain = NoDrain

\* first_configuration main, lines 151-157: the descriptor is (over)written
MetaWrite ==
    /\ pc \in {"meta_idle", "meta_written", "meta_read", "meta_read_written"}
    /\ \E b \in BOOLEAN, bucket \in MetaBuckets, key \in MetaKeys, region \in MetaRegions :
          /\ descriptor' = write_backend_hcl_with_meta(bucket, key, region, b)
          /\ loc' = [loc EXCEPT !.release_ui = PyBool(b), !.meta_test_via_ui = None]
    /\ pc' = "meta_written"
    /\ UNCHANGED <<script, frontend_env, exitCode, log, console, drain>>

\* destroy_infrastructure main, line 261: the descriptor is read
MetaRead ==
    /\ pc \in {"meta_idle", "meta_written"}
    /\ loc' = [loc EXCEPT !.meta_test_via_ui = read_backend_meta_test_via_ui(descriptor)]
    /\ pc' = IF pc = "meta_written" THEN "meta_read_written" ELSE "meta_read"
    /\ UNCHANGED <<script, frontend_env, exitCode, descriptor, log, console, drain>>

\* the descriptor is removed or replaced outside the scripts
MetaReplace ==
    /\ pc \in {"meta_written", "meta_read", "meta_read_written"}
    /\ descriptor' \in ForeignFiles
    /\ loc' = NoLocals
    /\ pc' = "meta_idle"
    /\ UNCHANGED <<script, frontend_env, exitCode, log, console, drain>>

NextMeta == MetaWrite \/ MetaRead \/ MetaReplace

SpecMeta == InitMeta /\ [][NextMeta]_vars

(***************************************************************************)
(* Process runner.  An external command ends in one of three ways: exit    *)
(* status 0 ("ok"), a non-zero exit status ("fail"), or the executable is  *)
(* not found ("notfound").  Each helper maps that to what the caller sees: *)
(* a normal return, a None result, or the exception that is raised.        *)
(***************************************************************************)
Outcomes == {"ok", "fail", "notfound"}

DestroyScripts == {"destroy_infrastructure", "destroy_infrastructure_win"}
ProvisionScripts == {"first_configuration", "first_configuration_win"}
IsWin(s) == s \in {"destroy_infrastructure_win", "first_configuration_win"}

\* run(cmd): check_call; the Windows scripts turn both failures into die()
run(s, outcome) ==
    IF outcome = "ok" THEN "return"
    ELSE IF IsWin(s) THEN "SystemExit"
    ELSE IF outcome = "fail" THEN "CalledProcessError"
    ELSE "FileNotFoundError"

\* capture(cmd): check_output; the Windows scripts turn both failures into die()
capture(s, outcome) ==
    IF outcome = "ok" THEN "return"
    ELSE IF IsWin(s) THEN "SystemExit"
    ELSE IF outcome = "fail" THEN "CalledProcessError"
    ELSE "FileNotFoundError"

\* Variant of capture_soft that fails the way capture does.
capture_hard(s, outcome) ==
    IF outcome = "ok" THEN "return"
    ELSE IF IsWin(s) THEN "SystemExit"
    ELSE IF outcome = "fail" THEN "CalledProcessError"
    ELSE "FileNotFoundError"

\* capture_soft(cmd) of the teardown scripts
capture_soft(s, outcome) ==
    IF outcome = "ok" THEN "return"
    ELSE IF IsWin(s) /\ outcome = "notfound" THEN "SystemExit"
    ELSE "None"

\* outputs of a command that is expected to print JSON
EmptyOut == <<>>
NotJson == <<"<","h","t","m","l",">">>
JsonDoc == <<"{","}">>     \* stands for a JSON document; its parsed value is carried beside it

\* Variant of capture_json that takes output json.loads rejects for no output.
capture_json_swallow(s, outcome, out) ==
    IF capture(s, outcome) # "return" THEN capture(s, outcome)
    ELSE IF out # JsonDoc THEN "None"
    ELSE "return"

\* capture_json(cmd): capture, then None for empty output, die() for output
\* that json.loads rejects
capture_json(s, outcome, out) ==
    IF capture(s, outcome) # "return" THEN capture(s, outcome)
    ELSE IF out = EmptyOut THEN "None"
    ELSE IF out # JsonDoc THEN "SystemExit"
    ELSE "return"

\* Variant of the truth value that takes None for true.
TruthyNone(t) == t # <<>>

\* Python truthiness of a str | None
Truthy(t) == t # NoText /\ t # <<>>

\* Variant of the exit status that reports success.
UncaughtExitZero(effect) == 0

\* the exit status of the process when the exception reaches the top of main:
\* an uncaught exception prints a traceback and exits 1, die() exits 1
UncaughtExit(effect) == 1

\* parse_bucket_name
parse_bucket_name(value) ==
    LET v == Strip(value)
    IN  IF StartsWith(v, ArnPrefix)
        THEN StripChars(AfterLast(v, ArnPrefix), {"/"})
        ELSE v

(***************************************************************************)
(* External commands as recorded in the log                                *)
(***************************************************************************)
\* data = {} : every .get() yields its default
NoPage ==
    [Versions |-> <<>>, DeleteMarkers |-> <<>>, IsTruncated |-> FALSE,
     NextKeyMarker |-> NoText, NextVersionIdMarker |-> NoText]

Command(tool, verb) ==
    [tool |-> tool, verb |-> verb, cwd |-> "", flag |-> "", backend_config |-> FALSE,
     name |-> "", bucket |-> NoText, key_marker |-> NoText, version_id_marker |-> NoText,
     Objects |-> <<>>, Quiet |-> FALSE, result |-> "ok", out |-> NoText, page |-> NoPage,
     echo |-> "none"]

\* what run() prints before it executes the command: the command line, and
\* "(cwd=...)" when a cwd is passed; run of first_configuration.py prints the
\* command line only
run_echo(s, cwd) ==
    IF s = "first_configuration" \/ cwd = "" THEN "cmd" ELSE "cmd_cwd"

\* a command issued through run(), or through the direct check_call of
\* first_configuration_win.py (line 251), which prints the same line first;
\* capture, capture_soft, capture_json and the other direct calls print nothing
Ran(s, cmd) == [cmd EXCEPT !.echo = run_echo(s, cmd.cwd)]

IsS3(e, verb) == e.tool = "aws" /\ e.verb = verb

(***************************************************************************)
(* Versioned bucket drain: s3_empty_bucket                                 *)
(***************************************************************************)
MaxPages == 2        \* list-object-versions calls answered per drain
ChunkSize == 1000    \* objects per delete-objects call

DigitChars == <<"0","1","2","3","4","5","6","7","8","9">>

RECURSIVE ToText(_)
ToText(n) ==
    IF n < 10 THEN <<DigitChars[n + 1]>>
    ELSE ToText(n \div 10) \o <<DigitChars[(n % 10) + 1]>>

\* the i-th entry of the page-th response: a key and a version id that no
\* other entry of the listing carries
Entry(key, page, i) ==
    [Key |-> key, VersionId |-> <<"v">> \o ToText(page) \o <<".">> \o ToText(i)]

\* A list-object-versions response with nv versions and nm delete markers;
\* with bad set, each list also ends with an entry that lacks a field.
GenPage(r, page) ==
    [Versions |->
         [i \in 1..r.nv |-> Entry(IF i % 2 = 1 THEN <<"a">> ELSE <<"b">>, page, i)]
         \o (IF r.bad THEN <<[Key |-> NoText, VersionId |-> <<"v","x">>]>> ELSE <<>>),
     DeleteMarkers |->
         [i \in 1..r.nm |-> Entry(<<"a">>, page, r.nv + i)]
         \o (IF r.bad THEN <<[Key |-> <<"a">>, VersionId |-> <<>>]>> ELSE <<>>),
     IsTruncated |-> r.truncated,
     NextKeyMarker |-> r.km,
     NextVersionIdMarker |-> r.vm]

Shape(nv, nm, bad, truncated, km, vm) ==
    [nv |-> nv, nm |-> nm, bad |-> bad, truncated |-> truncated, km |-> km, vm |-> vm]

KM == <<"a">>
VM == <<"v","9">>

\* responses offered to a drain that is examined on its own
DrainMenu ==
    { Shape(0, 0, FALSE, FALSE, NoText, NoText),
      Shape(3, 1, FALSE, FALSE, NoText, NoText),
      Shape(1, 1, TRUE, FALSE, NoText, NoText),
      Shape(0, 0, TRUE, FALSE, NoText, NoText),
      Shape(ChunkSize - 1, 1, FALSE, FALSE, NoText, NoText),
      Shape(ChunkSize, 1, FALSE, FALSE, NoText, NoText),
      Shape(ChunkSize, ChunkSize + 1, FALSE, FALSE, NoText, NoText),
      Shape(3, 1, FALSE, TRUE, NoText, NoText),
      Shape(0, 0, FALSE, TRUE, <<>>, <<>>),
      Shape(ChunkSize, 1, FALSE, TRUE, NoText, <<>>),
      Shape(3, 1, FALSE, TRUE, KM, VM),
      Shape(3, 1, FALSE, TRUE, KM, NoText),
      Shape(0, 1, FALSE, TRUE, NoText, VM),
      Shape(0, 0, FALSE, TRUE, KM, VM),
      Shape(ChunkSize, 1, FALSE, TRUE, KM, VM) }

\* responses offered to a drain inside a teardown run
TeardownMenu ==
    { Shape(0, 0, FALSE, FALSE, NoText, NoText),
      Shape(1, 1, FALSE, FALSE, NoText, NoText),
      Shape(1, 0, FALSE, TRUE, NoText, NoText),
      Shape(1, 1, FALSE, TRUE, KM, VM) }

\* Variant of s3_bucket_exists that never reports a missing bucket.
s3_bucket_exists_always(outcome) == TRUE

\* s3_bucket_exists: head-bucket succeeded; any exception means "no"
s3_bucket_exists(outcome) == outcome = "ok"

\* Variant of the test of an entry that asks for the Key only.
HasKey(e) == Truthy(e.Key)

\* "if k and vid" (line 172)
HasBoth(e) == Truthy(e.Key) /\ Truthy(e.VersionId)

\* Variant of to_delete that leaves the delete markers out.
ToDeleteVersionsOnly(data) == SelectSeq(data.Versions, HasBoth)

\* to_delete of one response: the versions, then the delete markers, each
\* entry only if it has both a Key and a VersionId
ToDelete(data) ==
    SelectSeq(data.Versions, HasBoth) \o SelectSeq(data.DeleteMarkers, HasBoth)

\* Variant of the slice that takes one element too many: to_delete[i : i + 1001]
ChunkOneTooMany(to_delete, i) ==
    SubSeq(to_delete, i + 1,
           IF i + ChunkSize + 1 < Len(to_delete) THEN i + ChunkSize + 1 ELSE Len(to_delete))

\* to_delete[i : i + 1000]
Chunk(to_delete, i) ==
    SubSeq(to_delete, i + 1,
           IF i + ChunkSize < Len(to_delete) THEN i + ChunkSize ELSE Len(to_delete))

\* Variant of the loop end without the check for missing markers.
AfterChunksNoMarkerCheck(d) ==
    IF ~d.IsTruncated
    THEN [pc |-> d.ret, warn |-> <<>>, drain |-> d]
    ELSE [pc |-> "s3_list", warn |-> <<>>,
          drain |-> [d EXCEPT !.KeyMarker = d.NextKeyMarker,
                              !.VersionIdMarker = d.NextVersionIdMarker]]

\* lines 191-197: what follows the delete loop of one response
AfterChunks(d) ==
    IF ~d.IsTruncated
    THEN [pc |-> d.ret, warn |-> <<>>, drain |-> d]
    ELSE LET d2 == [d EXCEPT !.KeyMarker = d.NextKeyMarker,
                             !.VersionIdMarker = d.NextVersionIdMarker]
         IN  IF ~Truthy(d2.KeyMarker) /\ ~Truthy(d2.VersionIdMarker)
             THEN [pc |-> d.ret, warn |-> <<"markers_missing">>, drain |-> d2]
             ELSE [pc |-> "s3_list", warn |-> <<>>, drain |-> d2]

\* the process ends with the given status
Exit(code) ==
    /\ pc' = "exited"
    /\ exitCode' = code

\* lines 137-143: empty name, normalisation, head-bucket probe
S3Head ==
    /\ pc = "s3_empty_bucket"
    /\ IF ~Truthy(drain.bucket)
       THEN /\ pc' = drain.ret
            /\ UNCHANGED <<log, console, drain, exitCode>>
       ELSE \E outcome \in Outcomes :
              LET b == parse_bucket_name(drain.bucket)
                  cmd == [Command("aws", "head-bucket") EXCEPT !.bucket = b, !.result = outcome]
              IN  /\ log' = Append(log, cmd)
                  /\ drain' = [drain EXCEPT !.bucket = b]
                  /\ IF s3_bucket_exists(outcome)
                     THEN /\ pc' = "s3_rm"
                          /\ UNCHANGED console
                     ELSE /\ pc' = drain.ret
                          /\ console' = Append(console, "bucket_not_found")
                  /\ UNCHANGED exitCode
    /\ UNCHANGED <<script, frontend_env, descriptor, loc>>

\* Variant of the handler around "s3 rm" that catches nothing.
RmFailureNeverCaught(s, eff) == FALSE

\* the failure of "s3 rm" that s3_empty_bucket catches: CalledProcessError
\* (line 149), SystemExit from run's die() (destroy_infrastructure_win.py 238)
RmFailureCaught(s, eff) ==
    IF IsWin(s) THEN eff = "SystemExit" ELSE eff = "CalledProcessError"

\* lines 147-152: best-effort "s3 rm --recursive"
S3Rm ==
    /\ pc = "s3_rm"
    /\ \E outcome \in Outcomes :
          LET cmd == Ran(script, [Command("aws", "rm") EXCEPT
                                     !.bucket = drain.bucket, !.result = outcome])
              eff == run(script, outcome)
              caught == RmFailureCaught(script, eff)
          IN  /\ log' = Append(log, cmd)
              /\ IF eff = "return" \/ caught
                 THEN /\ pc' = "s3_list"
                      /\ console' = IF caught THEN Append(console, "rm_failed") ELSE console
                      /\ drain' = [drain EXCEPT !.KeyMarker = NoText, !.VersionIdMarker = NoText]
                      /\ UNCHANGED exitCode
                 ELSE /\ Exit(UncaughtExit(eff))
                      /\ UNCHANGED <<console, drain>>
    /\ UNCHANGED <<script, frontend_env, descriptor, loc>>

\* Variant of the list-object-versions command that never carries a marker.
ListCommandNoMarkers(d) ==
    [Command("aws", "list-object-versions") EXCEPT !.bucket = d.bucket]

\* lines 155-167: the list-object-versions command
ListCommand(d) ==
    [Command("aws", "list-object-versions") EXCEPT
        !.bucket = d.bucket,
        !.key_marker = IF Truthy(d.KeyMarker) THEN d.KeyMarker ELSE NoText,
        !.version_id_marker = IF Truthy(d.VersionIdMarker) THEN d.VersionIdMarker ELSE NoText]

\* what the command may print: nothing, something that is not JSON, or one
\* of the responses of the menu
ListReplies(menu, page) ==
    {[out |-> EmptyOut, page |-> NoPage], [out |-> NotJson, page |-> NoPage]}
    \cup {[out |-> JsonDoc, page |-> GenPage(r, page)] : r \in menu}

\* lines 154-197 up to the first delete-objects call of the response (or, if
\* there is nothing to delete, to the end of the loop body)
S3List(menu) ==
    /\ pc = "s3_list"
    /\ drain.lists < MaxPages
    /\ \/ \E outcome \in {"fail", "notfound"} :
             /\ log' = Append(log, [ListCommand(drain) EXCEPT !.result = outcome])
             /\ Exit(UncaughtExit(capture_json(script, outcome, EmptyOut)))
             /\ UNCHANGED <<console, drain>>
       \/ \E reply \in ListReplies(menu, drain.lists + 1) :
             LET cmd == [ListCommand(drain) EXCEPT !.out = reply.out, !.page = reply.page]
                 eff == capture_json(script, "ok", reply.out)
                 data == IF eff = "return" THEN reply.page ELSE NoPage
                 d == [drain EXCEPT !.to_delete = ToDelete(data), !.i = 0,
                                    !.IsTruncated = data.IsTruncated,
                                    !.NextKeyMarker = data.NextKeyMarker,
                                    !.NextVersionIdMarker = data.NextVersionIdMarker,
                                    !.lists = @ + 1]
             IN  /\ log' = Append(log, cmd)
                 /\ IF eff = "SystemExit"
                    THEN /\ Exit(UncaughtExit(eff))
                         /\ UNCHANGED <<console, drain>>
                    ELSE IF Len(d.to_delete) > 0
                    THEN /\ pc' = "s3_delete"
                         /\ drain' = d
                         /\ UNCHANGED <<console, exitCode>>
                    ELSE /\ pc' = AfterChunks(d).pc
                         /\ drain' = AfterChunks(d).drain
                         /\ console' = console \o AfterChunks(d).warn
                         /\ UNCHANGED exitCode
    /\ UNCHANGED <<script, frontend_env, descriptor, loc>>

\* lines 179-197: one delete-objects call, and after the last one of the
\* response the end of the loop body
S3Delete ==
    /\ pc = "s3_delete"
    /\ \E outcome \in Outcomes :
          LET cmd == Ran(script, [Command("aws", "delete-objects") EXCEPT
                                     !.bucket = drain.bucket,
                                     !.Objects = Chunk(drain.to_delete, drain.i),
                                     !.Quiet = TRUE,
                                     !.result = outcome])
              eff == run(script, outcome)
              d == [drain EXCEPT !.i = @ + ChunkSize]
          IN  /\ log' = Append(log, cmd)
              /\ IF eff # "return"
                 THEN /\ Exit(UncaughtExit(eff))
                      /\ UNCHANGED <<console, drain>>
                 ELSE IF d.i < Len(d.to_delete)
                 THEN /\ pc' = "s3_delete"
                      /\ drain' = d
                      /\ UNCHANGED <<console, exitCode>>
                 ELSE /\ pc' = AfterChunks(d).pc
                      /\ drain' = AfterChunks(d).drain
                      /\ console' = console \o AfterChunks(d).warn
                      /\ UNCHANGED exitCode
    /\ UNCHANGED <<script, frontend_env, descriptor, loc>>

(***************************************************************************)
(* The drain on its own: s3_empty_bucket is called once with some bucket   *)
(* argument by either teardown script.                                     *)
(***************************************************************************)
WebBucket == <<"w","e","b">>
StateBucket == <<"t","f","-","s","t","a","t","e">>

DrainBuckets == {<<>>, WebBucket, <<" ">> \o ArnPrefix \o StateBucket \o <<"/">>}

InitDrain ==
    /\ script \in DestroyScripts
    /\ pc = "s3_empty_bucket"
    /\ exitCode = Running
    /\ descriptor = NoFile
    /\ frontend_env = NoFile
    /\ log = <<>>
    /\ console = <<>>
    /\ loc = NoLocals
    /\ \E b \in DrainBuckets : drain = [NoDrain EXCEPT !.bucket = b, !.ret = "s3_returned"]

NextDrain == S3Head \/ S3Rm \/ S3List(DrainMenu) \/ S3Delete

SpecDrain == InitDrain /\ [][NextDrain]_vars

(***************************************************************************)
(* The drain without a limit on the number of responses.  The log and the  *)
(* frame's counter keep the first MaxPages responses; a later pass of the  *)
(* "while True" loop (lines 154-197) is one step that changes the frame    *)
(* and the position only, so that a run of any length is a path in a       *)
(* finite graph.                                                           *)
(***************************************************************************)
\* drain.i after "for i in range(0, len(to_delete), 1000)" has run through
LastChunkStart(to_delete) ==
    IF to_delete = <<>> THEN 0
    ELSE ((Len(to_delete) + ChunkSize - 1) \div ChunkSize) * ChunkSize

\* lines 154-197: one whole pass of the loop after the logged ones: the list
\* command, the delete-objects calls of the response, the end of the body
S3ListOn(menu) ==
    /\ pc = "s3_list"
    /\ drain.lists >= MaxPages
    /\ \/ \E outcome \in {"fail", "notfound"} :
             \* the list command, or one of the delete commands, fails
             /\ Exit(UncaughtExit(run(script, outcome)))
             /\ UNCHANGED <<console, drain>>
       \/ \E reply \in ListReplies(menu, drain.lists + 1) :
             LET eff == capture_json(script, "ok", reply.out)
                 data == IF eff = "return" THEN reply.page ELSE NoPage
                 d == [drain EXCEPT !.to_delete = ToDelete(data),
                                    !.i = LastChunkStart(ToDelete(data)),
                                    !.IsTruncated = data.IsTruncated,
                                    !.NextKeyMarker = data.NextKeyMarker,
                                    !.NextVersionIdMarker = data.NextVersionIdMarker]
             IN  IF eff = "SystemExit"
                 THEN /\ Exit(UncaughtExit(eff))
                      /\ UNCHANGED <<console, drain>>
                 ELSE /\ pc' = AfterChunks(d).pc
                      /\ drain' = AfterChunks(d).drain
                      /\ console' = console \o AfterChunks(d).warn
                      /\ UNCHANGED exitCode
    /\ UNCHANGED <<script, frontend_env, descriptor, loc, log>>

\* responses offered to a drain of any length: the last page, a page that
\* claims more without a marker, and pages that claim more with markers
LiveMenu ==
    { Shape(1, 0, FALSE, FALSE, NoText, NoText),
      Shape(0, 1, FALSE, TRUE, NoText, NoText),
      Shape(1, 1, FALSE, TRUE, KM, VM),
      Shape(0, 0, FALSE, TRUE, KM, NoText) }

NextDrainLive == S3Head \/ S3Rm \/ S3List(LiveMenu) \/ S3Delete \/ S3ListOn(LiveMenu)

\* the script is one sequential process: it takes its next step whenever it
\* has one; nothing is assumed about what the commands answer
SpecDrainLive == InitDrain /\ [][NextDrainLive]_vars /\ WF_vars(NextDrainLive)

(***************************************************************************)
(* Teardown: main of destroy_infrastructure.py and of                      *)
(* destroy_infrastructure_win.py                                           *)
(***************************************************************************)
Terraform(verb, cwd) == [Command("terraform", verb) EXCEPT !.cwd = cwd]

\* what need("aws") and need("terraform") (require_exe in the Windows scripts)
\* answered, in the order main asks: the directories first, then aws, then
\* terraform; a tool main did not get to ask for stays Unset
RequiredTools(dirs_ok, aws_found, terraform_found) ==
    [aws |-> IF dirs_ok THEN PyBool(aws_found) ELSE Unset,
     terraform |-> IF dirs_ok /\ aws_found THEN PyBool(terraform_found) ELSE Unset,
     npm |-> Unset, node |-> Unset]

SomeProfile == <<"d","e","v">>

\* backend.hcl as a teardown run may find it
TeardownDescriptors ==
    { NoFile,
      write_backend_hcl_with_meta(StateBucket, SomeKey, SomeRegion, TRUE),
      write_backend_hcl_with_meta(StateBucket, SomeKey, SomeRegion, FALSE),
      Hash \o <<" ">> \o MetaKey \o <<"m","a","y","b","e">> \o NL
          \o BucketLhs \o Quote \o StateBucket \o Quote \o NL }

InitTeardown ==
    /\ script \in DestroyScripts
    /\ pc = "d_start"
    /\ exitCode = Running
    /\ descriptor \in TeardownDescriptors
    /\ frontend_env = NoFile
    /\ log = <<>>
    /\ console = <<>>
    /\ loc = NoLocals
    /\ drain = NoDrain

\* lines 214-225: the two directories and the two tools must exist
DCheckEnvironment ==
    /\ pc = "d_start"
    /\ \E dirs_ok \in BOOLEAN, aws_found \in BOOLEAN, terraform_found \in BOOLEAN :
          /\ loc' = [loc EXCEPT !.need = RequiredTools(dirs_ok, aws_found, terraform_found)]
          /\ IF dirs_ok /\ aws_found /\ terraform_found
             THEN pc' = "d_versions" /\ UNCHANGED exitCode
             ELSE Exit(1)
    /\ UNCHANGED <<script, frontend_env, descriptor, log, console, drain>>

\* lines 227-228: aws --version, terraform version
DVersions ==
    /\ pc \in {"d_versions", "d_tf_version"}
    /\ \E outcome \in Outcomes :
          LET cmd == IF pc = "d_versions" THEN Command("aws", "--version")
                     ELSE Command("terraform", "version")
          IN  /\ log' = Append(log, [cmd EXCEPT !.result = outcome])
              /\ IF capture(script, outcome) = "return"
                 THEN /\ pc' = IF pc = "d_versions" THEN "d_tf_version" ELSE "d_profiles"
                      /\ UNCHANGED exitCode
                 ELSE Exit(UncaughtExit(capture(script, outcome)))
    /\ UNCHANGED <<script, frontend_env, descriptor, console, loc, drain>>

\* lines 230-233: aws configure list-profiles; no profile is fatal
DProfiles ==
    /\ pc = "d_profiles"
    /\ \E outcome \in Outcomes, out \in {<<>>, SomeProfile} :
          /\ log' = Append(log, [Command("aws", "list-profiles") EXCEPT
                                    !.result = outcome,
                                    !.out = IF outcome = "ok" THEN out ELSE NoText])
          /\ IF capture(script, outcome) # "return"
             THEN Exit(UncaughtExit(capture(script, outcome)))
             ELSE IF ~Truthy(Strip(out)) THEN Exit(1)
             ELSE pc' = "d_select_profile" /\ UNCHANGED exitCode
    /\ UNCHANGED <<script, frontend_env, descriptor, console, loc, drain>>

\* lines 235-247: profile and region prompts; an empty answer is fatal
DPrompts ==
    /\ pc \in {"d_select_profile", "d_region"}
    /\ \E answer \in {NoText, <<>>, SomeRegion} :
          /\ loc' = [loc EXCEPT !.cancelled = IF answer = NoText THEN pc ELSE @]
          /\ IF ~Truthy(answer) THEN Exit(1)
             ELSE /\ pc' = IF pc = "d_select_profile" THEN "d_region" ELSE "d_confirm"
                  /\ UNCHANGED exitCode
    /\ UNCHANGED <<script, frontend_env, descriptor, log, console, drain>>

\* Variant of the confirmation test that takes a cancelled prompt for a yes.
ConfirmedUnlessDeclined(confirm) == confirm # PyFalse

\* "if not confirm" (line 253): only an explicit yes goes on
Confirmed(confirm) == confirm = PyTrue

\* lines 249-254: the confirmation; declining or cancelling exits with 0
DConfirm ==
    /\ pc = "d_confirm"
    /\ \E confirm \in {PyTrue, PyFalse, None} :
          /\ loc' = [loc EXCEPT !.confirm = confirm,
                                 !.cancelled = IF confirm = None THEN pc ELSE @]
          /\ IF ~Confirmed(confirm)
             THEN /\ Exit(0)
                  /\ console' = Append(console, "cancelled_by_user")
             ELSE /\ pc' = "d_read_meta"
                  /\ UNCHANGED <<exitCode, console>>
    /\ UNCHANGED <<script, frontend_env, descriptor, log, drain>>

\* Variant of the default that takes an unreadable flag for true.
MetaOrDefaultTrue(v) == IF v = None THEN PyTrue ELSE v

\* lines 262-264: an unknown flag counts as False
MetaOrDefault(v) == IF v = None THEN PyFalse ELSE v

\* lines 256-265: read the flag from backend.hcl
DReadMeta ==
    /\ pc = "d_read_meta"
    /\ LET v == read_backend_meta_test_via_ui(descriptor)
       IN  /\ loc' = [loc EXCEPT !.meta_test_via_ui = MetaOrDefault(v)]
           /\ console' = console
                  \o (IF descriptor = NoFile THEN <<"backend_hcl_not_found">> ELSE <<>>)
                  \o (IF v = None THEN <<"meta_not_found">> ELSE <<>>)
    /\ pc' = "d_root_init"
    /\ UNCHANGED <<script, frontend_env, exitCode, descriptor, log, drain>>

\* Variant of the best-effort init in which no failure is caught.
InitFailureNeverCaught(s, outcome) == FALSE

\* Variant of the best-effort init in which only the Windows script catches.
InitFailureCaughtOnWindows(s, outcome) == IsWin(s) /\ outcome # "ok"

\* the exceptions of a best-effort init that main catches: CalledProcessError
\* (destroy_infrastructure.py), any Exception (destroy_infrastructure_win.py)
InitFailureCaught(s, outcome) ==
    IF IsWin(s) THEN outcome # "ok" ELSE outcome = "fail"

\* Variant of the step after the root stack's init that goes on to the
\* bootstrap stack without destroying the root stack.
AfterWebsiteSkipRoot == "d_boot_init"

\* the step that follows the website bucket step (lines 289-297)
AfterWebsite == "d_destroy_root"

\* lines 267-274: best-effort init of the root stack; lines 276-287 when the
\* flag is false: nothing to empty
DRootInit ==
    /\ pc = "d_root_init"
    /\ \E outcome \in Outcomes :
          LET cmd == IF descriptor # NoFile
                     THEN [Terraform("init", "ROOT") EXCEPT
                              !.flag = "-reconfigure", !.backend_config = TRUE]
                     ELSE Terraform("init", "ROOT")
          IN  /\ log' = Append(log, [cmd EXCEPT !.result = outcome])
              /\ IF outcome = "ok" \/ InitFailureCaught(script, outcome)
                 THEN /\ pc' = IF loc.meta_test_via_ui = PyTrue
                                THEN "d_website_output" ELSE AfterWebsite
                      /\ console' = IF outcome = "ok" THEN console
                                    ELSE Append(console, "root_init_failed")
                      /\ loc' = [loc EXCEPT !.website_bucket = <<>>]
                      /\ UNCHANGED exitCode
                 ELSE /\ Exit(UncaughtExit("FileNotFoundError"))
                      /\ UNCHANGED <<console, loc>>
    /\ UNCHANGED <<script, frontend_env, descriptor, drain>>

\* lines 276-287 when the flag is true: soft query of website_bucket_name,
\* then either the call of s3_empty_bucket or the warning
DWebsiteOutput ==
    /\ pc = "d_website_output"
    /\ \E outcome \in Outcomes, out \in {<<>>, WebBucket} :
          LET eff == capture_soft(script, outcome)
              value == IF eff = "return" THEN out ELSE NoText
              website_bucket == IF Truthy(value) THEN value ELSE <<>>
          IN  /\ log' = Append(log, [Terraform("output", "ROOT") EXCEPT
                                        !.name = "website_bucket_name",
                                        !.result = outcome,
                                        !.out = IF outcome = "ok" THEN out ELSE NoText])
              /\ IF eff \notin {"return", "None"}
                 THEN /\ Exit(UncaughtExit(eff))
                      /\ UNCHANGED <<console, loc, drain>>
                 ELSE /\ loc' = [loc EXCEPT !.website_bucket = website_bucket]
                      /\ UNCHANGED exitCode
                      /\ IF Truthy(website_bucket)
                         THEN /\ pc' = "s3_empty_bucket"
                              /\ drain' = [NoDrain EXCEPT !.bucket = website_bucket,
                                                          !.ret = AfterWebsite]
                              /\ UNCHANGED console
                         ELSE /\ pc' = AfterWebsite
                              /\ console' = Append(console, "website_bucket_not_found")
                              /\ UNCHANGED drain
    /\ UNCHANGED <<script, frontend_env, descriptor>>

\* Variant of the end of a teardown that removes backend.hcl once the
\* bootstrap stack is destroyed.
DescriptorRemovedWithBackend(d, cwd, outcome) ==
    IF cwd = "BOOT" /\ outcome = "ok" THEN NoFile ELSE d

\* lines 289-297 and 318-327: backend.hcl after a terraform destroy: main
\* leaves the file as it is, also when everything is destroyed
DescriptorKept(d, cwd, outcome) == d

\* lines 289-297 and 318-325: terraform destroy of the root stack, then of the
\* bootstrap stack; a failure ends the run
DDestroy ==
    /\ pc \in {"d_destroy_root", "d_destroy_boot"}
    /\ \E outcome \in Outcomes :
          LET cwd == IF pc = "d_destroy_root" THEN "ROOT" ELSE "BOOT"
          IN  /\ log' = Append(log, Ran(script, [Terraform("destroy", cwd)
                                                    EXCEPT !.result = outcome]))
              /\ descriptor' = DescriptorKept(descriptor, cwd, outcome)
              /\ IF run(script, outcome) # "return"
                 THEN Exit(UncaughtExit(run(script, outcome)))
                 ELSE IF pc = "d_destroy_root"
                 THEN pc' = "d_boot_init" /\ UNCHANGED exitCode
                 ELSE Exit(0)
    /\ UNCHANGED <<script, frontend_env, console, loc, drain>>

\* lines 299-303: best-effort init of the bootstrap stack
DBootInit ==
    /\ pc = "d_boot_init"
    /\ \E outcome \in Outcomes :
          /\ log' = Append(log, [Terraform("init", "BOOT") EXCEPT !.result = outcome])
          /\ IF outcome = "ok" \/ InitFailureCaught(script, outcome)
             THEN /\ pc' = "d_output_name"
                  /\ console' = IF outcome = "ok" THEN console
                                ELSE Append(console, "boot_init_failed")
                  /\ UNCHANGED exitCode
             ELSE /\ Exit(UncaughtExit("FileNotFoundError"))
                  /\ UNCHANGED console
    /\ UNCHANGED <<script, frontend_env, descriptor, loc, drain>>

\* lines 305-316: backend_s3_bucket_name, else backend_s3_bucket_arn, else "";
\* then the call of s3_empty_bucket or the warning
DBackendOutput ==
    /\ pc \in {"d_output_name", "d_output_arn"}
    /\ \E outcome \in Outcomes,
          out \in (IF pc = "d_output_name" THEN {<<>>, StateBucket}
                   ELSE {<<>>, ArnPrefix \o StateBucket}) :
          LET eff == capture_soft(script, outcome)
              value == IF eff = "return" THEN out ELSE NoText
          IN  /\ log' = Append(log, [Terraform("output", "BOOT") EXCEPT
                                        !.name = IF pc = "d_output_name"
                                                 THEN "backend_s3_bucket_name"
                                                 ELSE "backend_s3_bucket_arn",
                                        !.result = outcome,
                                        !.out = IF outcome = "ok" THEN out ELSE NoText])
              /\ IF eff \notin {"return", "None"}
                 THEN /\ Exit(UncaughtExit(eff))
                      /\ UNCHANGED <<console, loc, drain>>
                 ELSE IF Truthy(value)
                 THEN /\ loc' = [loc EXCEPT !.backend_bucket = value]
                      /\ pc' = "s3_empty_bucket"
                      /\ drain' = [NoDrain EXCEPT !.bucket = value, !.ret = "d_destroy_boot"]
                      /\ UNCHANGED <<console, exitCode>>
                 ELSE IF pc = "d_output_name"
                 THEN /\ pc' = "d_output_arn"
                      /\ UNCHANGED <<console, loc, drain, exitCode>>
                 ELSE /\ loc' = [loc EXCEPT !.backend_bucket = <<>>]
                      /\ pc' = "d_destroy_boot"
                      /\ console' = Append(console, "backend_bucket_not_found")
                      /\ UNCHANGED <<drain, exitCode>>
    /\ UNCHANGED <<script, frontend_env, descriptor>>

NextTeardown ==
    \/ DCheckEnvironment \/ DVersions \/ DProfiles \/ DPrompts \/ DConfirm
    \/ DReadMeta \/ DRootInit \/ DWebsiteOutput \/ DDestroy \/ DBootInit
    \/ DBackendOutput
    \/ S3Head \/ S3Rm \/ S3List(TeardownMenu) \/ S3Delete

SpecTeardown == InitTeardown /\ [][NextTeardown]_vars

(***************************************************************************)
(* Provisioning: main of first_configuration.py and of                     *)
(* first_configuration_win.py                                              *)
(***************************************************************************)
\* tf_output of the provisioning scripts.  first_configuration.py catches
\* CalledProcessError; first_configuration_win.py calls a capture that has
\* already turned the failure into die(), and re-raises that SystemExit.
tf_output(s, outcome) ==
    IF capture(s, outcome) = "return" THEN "return"
    ELSE IF capture(s, outcome) = "CalledProcessError" THEN "None"
    ELSE capture(s, outcome)

ApiUrl == <<"h","t","t","p","s",":","/","/","a","p","i">>
SiteUrl == <<"h","t","t","p",":","/","/","s","i","t","e">>
EnvLhs == <<"V","I","T","E","_","A","P","I","_","B","A","S","E","_","U","R","L","=">>

\* backend.hcl as a provisioning run may find it: none, or one left by an
\* earlier run
ProvisionDescriptors ==
    {NoFile, write_backend_hcl_with_meta(StateBucket, SomeKey, SomeRegion, TRUE)}

InitProvision ==
    /\ script \in ProvisionScripts
    /\ pc = "p_start"
    /\ exitCode = Running
    /\ descriptor \in ProvisionDescriptors
    /\ frontend_env = NoFile
    /\ log = <<>>
    /\ console = <<>>
    /\ loc = NoLocals
    /\ drain = NoDrain

\* lines 67-79: the two directories and the two tools must exist
PCheckEnvironment ==
    /\ pc = "p_start"
    /\ \E dirs_ok \in BOOLEAN, aws_found \in BOOLEAN, terraform_found \in BOOLEAN :
          /\ loc' = [loc EXCEPT !.need = RequiredTools(dirs_ok, aws_found, terraform_found)]
          /\ IF dirs_ok /\ aws_found /\ terraform_found
             THEN pc' = "p_versions" /\ UNCHANGED exitCode
             ELSE Exit(1)
    /\ UNCHANGED <<script, descriptor, frontend_env, log, console, drain>>

\* lines 81-82: aws --version, terraform version
PVersions ==
    /\ pc \in {"p_versions", "p_tf_version"}
    /\ \E outcome \in Outcomes :
          LET cmd == IF pc = "p_versions" THEN Command("aws", "--version")
                     ELSE Command("terraform", "version")
          IN  /\ log' = Append(log, [cmd EXCEPT !.result = outcome])
              /\ IF capture(script, outcome) = "return"
                 THEN /\ pc' = IF pc = "p_versions" THEN "p_tf_version" ELSE "p_profiles"
                      /\ UNCHANGED exitCode
                 ELSE Exit(UncaughtExit(capture(script, outcome)))
    /\ UNCHANGED <<script, descriptor, frontend_env, console, loc, drain>>

\* lines 85-88: aws configure list-profiles; no profile is fatal
PProfiles ==
    /\ pc = "p_profiles"
    /\ \E outcome \in Outcomes, out \in {<<>>, SomeProfile} :
          /\ log' = Append(log, [Command("aws", "list-profiles") EXCEPT
                                    !.result = outcome,
                                    !.out = IF outcome = "ok" THEN out ELSE NoText])
          /\ IF capture(script, outcome) # "return"
             THEN Exit(UncaughtExit(capture(script, outcome)))
             ELSE IF ~Truthy(out) THEN Exit(1)
             ELSE pc' = "p_select_profile" /\ UNCHANGED exitCode
    /\ UNCHANGED <<script, descriptor, frontend_env, console, loc, drain>>

\* lines 90-98 (profile), 108-113 (region), 116-121 (state key): an empty or
\* cancelled answer is fatal
PPrompts ==
    /\ pc \in {"p_select_profile", "p_region", "p_key"}
    /\ \E answer \in {NoText, <<>>, SomeRegion} :
          /\ loc' = [loc EXCEPT !.cancelled = IF answer = NoText THEN pc ELSE @]
          /\ IF ~Truthy(answer) THEN Exit(1)
             ELSE /\ pc' = CASE pc = "p_select_profile" -> "p_release_ui"
                             [] pc = "p_region" -> "p_key"
                             [] pc = "p_key" -> "p_boot_init"
                  /\ UNCHANGED exitCode
    /\ UNCHANGED <<script, descriptor, frontend_env, log, console, drain>>

\* Variant of bool() that is true for every answer.
bool_always(value) == TRUE

\* bool(release_ui), "if release_ui", "'true' if release_ui else 'false'"
\* (lines 156, 174, 201)
bool(value) == value = PyTrue

\* lines 101-105: "Release UI site as well?"; the answer is not checked
PReleaseUi ==
    /\ pc = "p_release_ui"
    /\ \E answer \in {PyTrue, PyFalse, None} :
          loc' = [loc EXCEPT !.release_ui = answer,
                             !.cancelled = IF answer = None THEN pc ELSE @]
    /\ pc' = "p_region"
    /\ UNCHANGED <<script, exitCode, descriptor, frontend_env, log, console, drain>>

\* lines 125-137: terraform init and apply of the bootstrap stack
PBootstrap ==
    /\ pc \in {"p_boot_init", "p_boot_apply"}
    /\ \E outcome \in Outcomes :
          /\ log' = Append(log, Ran(script, [Terraform(IF pc = "p_boot_init" THEN "init"
                                                       ELSE "apply",
                                                       "BOOT") EXCEPT !.result = outcome]))
          /\ IF run(script, outcome) = "return"
             THEN /\ pc' = IF pc = "p_boot_init" THEN "p_boot_apply" ELSE "p_output_name"
                  /\ UNCHANGED exitCode
             ELSE Exit(UncaughtExit(run(script, outcome)))
    /\ UNCHANGED <<script, descriptor, frontend_env, console, loc, drain>>

\* Variant of the step after the bucket is known that goes straight to the
\* root stack's init.
AfterBackendOutputSkipWrite == "p_init_migrate"

\* the step that follows ok("State bucket: ...") (lines 148-158)
AfterBackendOutput == "p_write_descriptor"

\* lines 139-146: backend_s3_bucket_name, else backend_s3_bucket_arn, else die
PBackendOutput ==
    /\ pc \in {"p_output_name", "p_output_arn"}
    /\ \E outcome \in Outcomes,
          out \in (IF pc = "p_output_name" THEN {<<>>, StateBucket}
                   ELSE {<<>>, ArnPrefix \o StateBucket}) :
          LET eff == tf_output(script, outcome)
              value == IF eff = "return" THEN out ELSE NoText
          IN  /\ log' = Append(log, [Terraform("output", "BOOT") EXCEPT
                                        !.name = IF pc = "p_output_name"
                                                 THEN "backend_s3_bucket_name"
                                                 ELSE "backend_s3_bucket_arn",
                                        !.result = outcome,
                                        !.out = IF outcome = "ok" THEN out ELSE NoText])
              /\ IF eff \notin {"return", "None"}
                 THEN /\ Exit(UncaughtExit(eff))
                      /\ UNCHANGED loc
                 ELSE IF Truthy(value)
                 THEN /\ loc' = [loc EXCEPT !.bucket = value]
                      /\ pc' = AfterBackendOutput
                      /\ UNCHANGED exitCode
                 ELSE IF pc = "p_output_name"
                 THEN /\ pc' = "p_output_arn"
                      /\ UNCHANGED <<loc, exitCode>>
                 ELSE /\ Exit(1)
                      /\ UNCHANGED loc
    /\ UNCHANGED <<script, descriptor, frontend_env, console, drain>>

\* lines 148-158: backend.hcl is written with the metadata line
PWriteDescriptor ==
    /\ pc = "p_write_descriptor"
    /\ descriptor' = write_backend_hcl_with_meta(loc.bucket, SomeKey, SomeRegion,
                                                 bool(loc.release_ui))
    /\ console' = Append(console, "backend_hcl_ready")
    /\ pc' = "p_init_migrate"
    /\ UNCHANGED <<script, exitCode, frontend_env, log, loc, drain>>

\* Variant of the root init's outcome handling that applies the root stack
\* after a failed reconfigure.
AfterRootInitApplyAnyway(migrate, outcome) ==
    IF outcome = "ok" THEN "p_root_apply"
    ELSE IF outcome = "fail" THEN (IF migrate THEN "p_init_reconfigure" ELSE "p_root_apply")
    ELSE "exited"

\* Variant of the root init's outcome handling that goes past the root apply.
AfterRootInitSkipApply(migrate, outcome) ==
    IF outcome = "ok" THEN "p_show_outputs"
    ELSE IF migrate /\ outcome = "fail" THEN "p_init_reconfigure"
    ELSE "exited"

\* lines 165-169: what follows a root init: the apply after a success, the
\* reconfigure after a migrate that exited non-zero, the end of the run
\* otherwise (first_configuration_win.py 252-263)
AfterRootInit(migrate, outcome) ==
    IF outcome = "ok" THEN "p_root_apply"
    ELSE IF migrate /\ outcome = "fail" THEN "p_init_reconfigure"
    ELSE "exited"

\* lines 160-169: init -migrate-state; on a non-zero exit init -reconfigure
PRootInit ==
    /\ pc \in {"p_init_migrate", "p_init_reconfigure"}
    /\ \E outcome \in Outcomes :
          LET migrate == pc = "p_init_migrate"
              cmd == [Terraform("init", "ROOT") EXCEPT
                         !.flag = IF migrate THEN "-migrate-state" ELSE "-reconfigure",
                         !.backend_config = TRUE,
                         !.result = outcome]
          IN  /\ log' = Append(log, Ran(script, cmd))
              /\ IF AfterRootInit(migrate, outcome) # "exited"
                 THEN pc' = AfterRootInit(migrate, outcome) /\ UNCHANGED exitCode
                 ELSE Exit(UncaughtExit(run(script, outcome)))
    /\ UNCHANGED <<script, descriptor, frontend_env, console, loc, drain>>

\* lines 171-182: terraform apply of the root stack
PRootApply ==
    /\ pc = "p_root_apply"
    /\ \E outcome \in Outcomes :
          /\ log' = Append(log, Ran(script, [Terraform("apply", "ROOT") EXCEPT
                                                !.flag = IF bool(loc.release_ui)
                                                         THEN "test_via_ui=true"
                                                         ELSE "test_via_ui=false",
                                                !.result = outcome]))
          /\ IF run(script, outcome) = "return"
             THEN pc' = "p_show_outputs" /\ UNCHANGED exitCode
             ELSE Exit(UncaughtExit(run(script, outcome)))
    /\ UNCHANGED <<script, descriptor, frontend_env, console, loc, drain>>

\* lines 184-188: "terraform output" is shown; its failure is passed over
\* (CalledProcessError in first_configuration.py, SystemExit in the other)
PShowOutputs ==
    /\ pc = "p_show_outputs"
    /\ \E outcome \in Outcomes :
          /\ log' = Append(log, [Terraform("output", "ROOT") EXCEPT !.result = outcome])
          /\ IF capture(script, outcome) \in {"return", "CalledProcessError", "SystemExit"}
             THEN pc' = "p_api_base_url" /\ UNCHANGED exitCode
             ELSE Exit(UncaughtExit(capture(script, outcome)))
    /\ UNCHANGED <<script, descriptor, frontend_env, console, loc, drain>>

\* lines 190-198: api_base_url is mandatory; .env.local is written from it
PApiBaseUrl ==
    /\ pc = "p_api_base_url"
    /\ \E outcome \in Outcomes, out \in {<<>>, ApiUrl} :
          LET eff == tf_output(script, outcome)
              value == IF eff = "return" THEN out ELSE NoText
          IN  /\ log' = Append(log, [Terraform("output", "ROOT") EXCEPT
                                        !.name = "api_base_url",
                                        !.result = outcome,
                                        !.out = IF outcome = "ok" THEN out ELSE NoText])
              /\ IF eff \notin {"return", "None"}
                 THEN Exit(UncaughtExit(eff)) /\ UNCHANGED frontend_env
                 ELSE IF ~Truthy(value)
                 THEN Exit(1) /\ UNCHANGED frontend_env
                 ELSE /\ frontend_env' = EnvLhs \o value \o NL
                      /\ IF bool(loc.release_ui)
                         THEN pc' = "p_ui_tools" /\ UNCHANGED exitCode
                         ELSE Exit(0)
    /\ UNCHANGED <<script, descriptor, console, loc, drain>>

\* lines 201-203: npm must exist (first_configuration_win.py 292-296: npm and
\* node must exist and answer -v)
PUiTools ==
    /\ pc \in {"p_ui_tools", "p_node_version", "p_npm_version"}
    /\ IF pc = "p_ui_tools"
       THEN /\ \E npm_found \in BOOLEAN, node_found \in BOOLEAN :
                  /\ loc' = [loc EXCEPT !.need.npm = PyBool(npm_found),
                                         !.need.node = IF IsWin(script) /\ npm_found
                                                       THEN PyBool(node_found) ELSE Unset]
                  /\ IF ~npm_found \/ (IsWin(script) /\ ~node_found) THEN Exit(1)
                     ELSE /\ pc' = IF IsWin(script) THEN "p_node_version"
                                   ELSE "p_website_bucket"
                          /\ UNCHANGED exitCode
            /\ UNCHANGED log
       ELSE \E outcome \in Outcomes :
              /\ log' = Append(log, [Command(IF pc = "p_node_version" THEN "node" ELSE "npm",
                                             "-v") EXCEPT !.result = outcome])
              /\ IF capture(script, outcome) = "return"
                 THEN /\ pc' = IF pc = "p_node_version" THEN "p_npm_version"
                                ELSE "p_website_bucket"
                      /\ UNCHANGED exitCode
                 ELSE Exit(UncaughtExit(capture(script, outcome)))
              /\ UNCHANGED loc
    /\ UNCHANGED <<script, descriptor, frontend_env, console, drain>>

\* lines 205-213: website_bucket_name and website_url are queried, then the
\* bucket is required
PWebsiteOutputs ==
    /\ pc \in {"p_website_bucket", "p_website_url"}
    /\ \E outcome \in Outcomes,
          out \in (IF pc = "p_website_bucket" THEN {<<>>, WebBucket} ELSE {<<>>, SiteUrl}) :
          LET eff == tf_output(script, outcome)
              value == IF eff = "return" THEN out ELSE NoText
          IN  /\ log' = Append(log, [Terraform("output", "ROOT") EXCEPT
                                        !.name = IF pc = "p_website_bucket"
                                                 THEN "website_bucket_name"
                                                 ELSE "website_url",
                                        !.result = outcome,
                                        !.out = IF outcome = "ok" THEN out ELSE NoText])
              /\ IF eff \notin {"return", "None"}
                 THEN /\ Exit(UncaughtExit(eff))
                      /\ UNCHANGED loc
                 ELSE IF pc = "p_website_bucket"
                 THEN /\ loc' = [loc EXCEPT !.website_bucket = value]
                      /\ pc' = "p_website_url"
                      /\ UNCHANGED exitCode
                 ELSE IF ~Truthy(loc.website_bucket)
                 THEN /\ Exit(1)
                      /\ UNCHANGED loc
                 ELSE /\ pc' = "p_npm_install"
                      /\ UNCHANGED <<loc, exitCode>>
    /\ UNCHANGED <<script, descriptor, frontend_env, console, drain>>

\* Variant of the choice of the build output that takes dist/ for granted.
dist_dir_unchecked(s, dist, alt_build) == "dist"

\* lines 229-230: the directory that is uploaded: dist/ if it exists
\* (first_configuration_win.py 322-328: else build/ if that exists), else none
dist_dir(s, dist, alt_build) ==
    IF dist THEN "dist"
    ELSE IF IsWin(s) /\ alt_build THEN "build"
    ELSE "none"

\* lines 218-230: npm ci (or npm install without a lock file), npm run build,
\* then the build output directory must exist (dist; first_configuration_win.py
\* also accepts build).  loc records what the tests of the file system found.
PBuild ==
    /\ pc \in {"p_npm_install", "p_npm_build"}
    /\ \E outcome \in Outcomes, pkg_lock \in BOOLEAN, dist \in BOOLEAN, alt_build \in BOOLEAN :
          LET cmd == IF pc = "p_npm_build" THEN Command("npm", "run build")
                     ELSE IF pkg_lock THEN Command("npm", "ci")
                     ELSE Command("npm", "install")
              looked == IsWin(script) /\ ~dist
          IN  /\ log' = Append(log, Ran(script, [cmd EXCEPT !.cwd = "frontend",
                                                           !.result = outcome]))
              /\ IF pc = "p_npm_install"
                 THEN /\ loc' = [loc EXCEPT !.pkg_lock = PyBool(pkg_lock)]
                      /\ IF run(script, outcome) # "return"
                         THEN Exit(UncaughtExit(run(script, outcome)))
                         ELSE pc' = "p_npm_build" /\ UNCHANGED exitCode
                 ELSE IF run(script, outcome) # "return"
                 THEN /\ Exit(UncaughtExit(run(script, outcome)))
                      /\ UNCHANGED loc
                 ELSE /\ loc' = [loc EXCEPT !.dist = PyBool(dist),
                                            !.alt_build = IF looked THEN PyBool(alt_build)
                                                          ELSE Unset]
                      /\ IF dist_dir(script, dist, alt_build) # "none"
                         THEN pc' = "p_sync" /\ UNCHANGED exitCode
                         ELSE Exit(1)
    /\ UNCHANGED <<script, descriptor, frontend_env, console, drain>>

\* lines 232-243: aws s3 sync --delete to the website bucket
PSync ==
    /\ pc = "p_sync"
    /\ \E outcome \in Outcomes :
          /\ log' = Append(log, Ran(script, [Command("aws", "sync") EXCEPT
                                                !.cwd = "project_root",
                                                !.name = IF loc.dist = PyTrue THEN "dist"
                                                         ELSE "build",
                                                !.bucket = loc.website_bucket,
                                                !.flag = "--delete",
                                                !.result = outcome]))
          /\ IF run(script, outcome) = "return"
             THEN Exit(0)
             ELSE Exit(UncaughtExit(run(script, outcome)))
    /\ UNCHANGED <<script, descriptor, frontend_env, console, loc, drain>>

NextProvision ==
    \/ PCheckEnvironment \/ PVersions \/ PProfiles \/ PPrompts \/ PReleaseUi
    \/ PBootstrap \/ PBackendOutput \/ PWriteDescriptor \/ PRootInit \/ PRootApply
    \/ PShowOutputs \/ PApiBaseUrl \/ PUiTools \/ PWebsiteOutputs \/ PBuild \/ PSync

SpecProvision == InitProvision /\ [][NextProvision]_vars

(***************************************************************************)
(* Provisioning runs one after the other in the same checkout: backend.hcl *)
(* and .env.local stay on disk, and so does what the last successful       *)
(* "terraform apply" of the root stack deployed.  A new run's log starts   *)
(* with that apply command, which stands for the deployed state.           *)
(***************************************************************************)
IsRootApplied(e) ==
    e.tool = "terraform" /\ e.verb = "apply" /\ e.cwd = "ROOT" /\ e.result = "ok"

\* the last successful root apply of the log, if any
Deployed(l) ==
    LET applied == SelectSeq(l, IsRootApplied)
    IN  IF applied = <<>> THEN <<>> ELSE <<applied[Len(applied)]>>

\* the script has ended and one of the provisioning scripts is started again
PRunAgain ==
    /\ pc = "exited"
    /\ script \in ProvisionScripts
    /\ script' \in ProvisionScripts
    /\ pc' = "p_start"
    /\ exitCode' = Running
    /\ log' = Deployed(log)
    /\ console' = <<>>
    /\ loc' = NoLocals
    /\ UNCHANGED <<descriptor, frontend_env, drain>>

NextRuns == NextProvision \/ PRunAgain

SpecRuns == InitProvision /\ [][NextRuns]_vars

(***************************************************************************)
(* The session environment: main's env, from the copy of the process       *)
(* environment to the commands that are started with it.  Only the two     *)
(* region variables are followed.                                          *)
(***************************************************************************)
OtherRegion == <<"u","s","-","e","a","s","t","-","1">>

\* values a region variable may have in the inherited environment; NoText
\* stands for a variable that is not set
InheritedRegions == {NoText, SomeRegion, OtherRegion}

\* answers to the "AWS region:" prompt; NoText is a cancelled prompt
RegionAnswers == {NoText, <<>>, SomeRegion, OtherRegion}

MaxCommands == 2     \* commands followed after the region prompt

\* dict.setdefault(name, value)
setdefault(current, value) == IF current = NoText THEN value ELSE current

\* env after the region prompt:
\*   destroy_infrastructure.py 245-246       env.setdefault(...) for both
\*   destroy_infrastructure_win.py 333-334   env[...] = region for both
\*   first_configuration_win.py 212-213      env[...] = region for both
\*   first_configuration.py 108-123          env is not touched
region_overlay(s, env, region) ==
    IF IsWin(s)
    THEN [AWS_REGION |-> region, AWS_DEFAULT_REGION |-> region]
    ELSE IF s = "destroy_infrastructure"
    THEN [AWS_REGION |-> setdefault(env.AWS_REGION, region),
          AWS_DEFAULT_REGION |-> setdefault(env.AWS_DEFAULT_REGION, region)]
    ELSE env

\* the commands that follow the region prompt and name or use a region
SessionCommands(s) ==
    IF s \in DestroyScripts
    THEN {[tool |-> "aws", verb |-> "head-bucket"], [tool |-> "terraform", verb |-> "destroy"]}
    ELSE {[tool |-> "terraform", verb |-> "apply"], [tool |-> "aws", verb |-> "sync"]}

InitEnv ==
    /\ script \in DestroyScripts \cup ProvisionScripts
    /\ pc = "env_copy"
    /\ exitCode = Running
    /\ descriptor = NoFile
    /\ frontend_env = NoFile
    /\ log = <<>>
    /\ console = <<>>
    /\ loc = NoLocals
    /\ drain = NoDrain

\* env = os.environ.copy()
EnvCopy ==
    /\ pc = "env_copy"
    /\ \E a \in InheritedRegions, b \in InheritedRegions :
          loc' = [loc EXCEPT !.env = [AWS_REGION |-> a, AWS_DEFAULT_REGION |-> b]]
    /\ pc' = "env_region"
    /\ UNCHANGED <<script, exitCode, descriptor, frontend_env, log, console, drain>>

\* the "AWS region:" prompt and what main does with the answer
EnvRegion ==
    /\ pc = "env_region"
    /\ \E region \in RegionAnswers :
          IF ~Truthy(region)
          THEN /\ Exit(1)
               /\ loc' = [loc EXCEPT !.cancelled = "env_region"]
          ELSE /\ loc' = [loc EXCEPT !.region = region,
                                     !.env = region_overlay(script, loc.env, region)]
               /\ pc' = "env_ready"
               /\ UNCHANGED exitCode
    /\ UNCHANGED <<script, descriptor, frontend_env, log, console, drain>>

\* a command is started: terraform gets "-var=region=<region>", every
\* command gets env=env
EnvCommand ==
    /\ pc = "env_ready"
    /\ Len(log) < MaxCommands
    /\ \E c \in SessionCommands(script) :
          log' = Append(log, [tool |-> c.tool, verb |-> c.verb,
                              var_region |-> IF c.tool = "terraform"
                                             THEN loc.region ELSE NoText,
                              env |-> loc.env])
    /\ UNCHANGED <<script, pc, exitCode, descriptor, frontend_env, console, loc, drain>>

NextEnv == EnvCopy \/ EnvRegion \/ EnvCommand

SpecEnv == InitEnv /\ [][NextEnv]_vars

(***************************************************************************)
(* The writer function: lambda_handler of                                  *)
(* resources/lambda_codes/writer/lambda_function.py.  A request body is    *)
(* given by what base64 decoding and json.loads make of it: the parsed     *)
(* value is carried beside the body, as for the listings of the drain.     *)
(* In this part log holds the put_item calls of the invocation and loc     *)
(* the handler's inputs and its result.                                    *)
(***************************************************************************)
\* a key the JSON object does not have
Missing == [type |-> "missing"]
JsonNull == [type |-> "null"]
JsonStr(t) == [type |-> "str", s |-> t]
JsonDict(text, author) == [type |-> "dict", text |-> text, author |-> author]

\* values of the "text" and "author" members: none, null, a number, an
\* array, a string
Members ==
    {Missing, JsonNull, [type |-> "int"], [type |-> "list"]}
    \cup {JsonStr(t) : t \in {<<>>, <<" ", "\t">>, <<"h","i">>, <<" ","h","i","\n">>}}

\* what json.loads may return for a body
Payloads ==
    {JsonNull, [type |-> "int"], [type |-> "list"], JsonStr(<<"h","i">>)}
    \cup {JsonDict(t, a) : t \in Members, a \in Members}

\* event["body"]: absent, not JSON, or a JSON document with its value
WriterBodies ==
    {[present |-> FALSE, out |-> NoText, payload |-> JsonNull],
     [present |-> TRUE, out |-> EmptyOut, payload |-> JsonNull],
     [present |-> TRUE, out |-> NotJson, payload |-> JsonNull]}
    \cup {[present |-> TRUE, out |-> JsonDoc, payload |-> v] : v \in Payloads}

\* dict.get(key): the member, None when the key is missing
dict_get(member) == IF member = Missing THEN JsonNull ELSE member

\* _response(status_code, body) for the dict bodies the handler passes
response(status_code, error, field) ==
    [statusCode |-> status_code, error |-> error, field |-> field]

\* lines 104-110: the item that is written
Item(text, author) ==
    [message_id |-> "uuid4", text |-> Strip(text.s), created_at |-> "now",
     author |-> IF author.type = "str" /\ author.s # <<>> /\ Strip(author.s) # <<>>
                THEN Strip(author.s) ELSE NoText]

\* lines 114-128: the write and the response that follows it
put_item(item, outcome) ==
    IF outcome = "ok" THEN [raised |-> "", resp |-> response(201, "", "")]
    ELSE IF outcome = "ConditionalCheckFailedException"
    THEN [raised |-> "", resp |-> response(409, "Conflict", "")]
    ELSE IF outcome = "ClientError"
    THEN [raised |-> "", resp |-> response(500, "DDBPutItemFailed", "")]
    ELSE [raised |-> "Exception", resp |-> response(0, "", "")]

\* lines 67-128, the body of the outer try: the response that is returned or
\* the exception that is raised, and the item put_item was called with
handler_body(event) ==
    LET none == [raised |-> "", resp |-> response(0, "", ""), put |-> <<>>]
        body == event.body
        payload == body.payload
        text == dict_get(payload.text)
        author == dict_get(payload.author)
    IN  IF ~event.table_env
        THEN [none EXCEPT !.raised = "RuntimeError"]
        ELSE IF ~body.present
        THEN [none EXCEPT !.resp = response(400, "MissingBody", "")]
        ELSE IF event.base64 = "undecodable"
        THEN [none EXCEPT !.raised = "ValueError"]
        ELSE IF body.out # JsonDoc
        THEN [none EXCEPT !.resp = response(400, "InvalidJSON", "")]
        ELSE IF payload.type # "dict"
        THEN [none EXCEPT !.raised = "AttributeError"]
        ELSE IF text.type # "str" \/ Strip(text.s) = <<>>
        THEN [none EXCEPT !.resp = response(400, "ValidationError", "text")]
        ELSE IF author # JsonNull /\ author.type # "str"
        THEN [none EXCEPT !.resp = response(400, "ValidationError", "author")]
        ELSE [raised |-> put_item(Item(text, author), event.put).raised,
              resp |-> put_item(Item(text, author), event.put).resp,
              put |-> <<Item(text, author)>>]

\* lambda_handler: lines 130-132 turn every exception of the body into a
\* 500 response
lambda_handler(event) ==
    LET r == handler_body(event)
    IN  IF r.raised # ""
        THEN [raised |-> "", resp |-> response(500, "Unhandled", ""), put |-> r.put]
        ELSE r

\* an invocation: the body; isBase64Encoded not set, set with a body that
\* decodes, or set with a body that b64decode or decode("utf-8") rejects;
\* whether DDB_TABLE is set; what table.put_item does
WriterEvents ==
    [body : WriterBodies,
     base64 : {"plain", "decodes", "undecodable"},
     table_env : BOOLEAN,
     put : {"ok", "ConditionalCheckFailedException", "ClientError", "OtherError"}]

InitWriter ==
    /\ script = "writer"
    /\ pc = "w_idle"
    /\ exitCode = Running
    /\ descriptor = NoFile
    /\ frontend_env = NoFile
    /\ log = <<>>
    /\ console = <<>>
    /\ loc = [event |-> Unset, response |-> Unset]
    /\ drain = NoDrain

\* one invocation of the function
WriterInvoke ==
    /\ pc = "w_idle"
    /\ \E event \in WriterEvents :
          LET r == lambda_handler(event)
          IN  /\ loc' = [event |-> event, response |-> r.resp]
              /\ log' = [k \in 1..Len(r.put) |->
                            [tool |-> "dynamodb", verb |-> "put_item", Item |-> r.put[k],
                             result |-> event.put]]
              /\ pc' = IF r.raised = "" THEN "w_returned" ELSE "w_raised"
    /\ UNCHANGED <<script, exitCode, descriptor, frontend_env, console, drain>>

\* the function is ready for the next request
WriterNext ==
    /\ pc \in {"w_returned", "w_raised"}
    /\ pc' = "w_idle"
    /\ loc' = [event |-> Unset, response |-> Unset]
    /\ log' = <<>>
    /\ UNCHANGED <<script, exitCode, descriptor, frontend_env, console, drain>>

NextWriter == WriterInvoke \/ WriterNext

SpecWriter == InitWriter /\ [][NextWriter]_vars

(***************************************************************************)
(* Any run of one of the four scripts                                      *)
(***************************************************************************)
InitRun == InitProvision \/ InitTeardown

NextRun == NextProvision \/ NextTeardown

SpecRun == InitRun /\ [][NextRun]_vars

(***************************************************************************)
(* Properties of the metadata channel (SpecMeta)                           *)
(***************************************************************************)
\* C1: reading the descriptor right after write_backend_hcl_with_meta(path,
\* bucket, key, region, b) returns exactly b: True for true, False for false,
\* never None, whatever the bucket, key and region texts are.
C1_RoundTrip ==
    pc = "meta_read_written" =>
        /\ loc.meta_test_via_ui = loc.release_ui
        /\ loc.meta_test_via_ui \in {PyTrue, PyFalse}

\* C1 witness: False was written and read back although a later line of the
\* file (from the bucket argument) carries a metadata line saying true.
C1_Witness ==
    /\ pc = "meta_read_written"
    /\ loc.release_ui = PyFalse
    /\ loc.meta_test_via_ui = PyFalse
    /\ Contains(descriptor, NL \o Hash \o <<" ">> \o MetaKey \o TrueText)

\* a line that, trimmed and lower-cased, is a comment holding the metadata key
IsMetaCommentLine(line) ==
    /\ Len(Strip(line)) > 0
    /\ Strip(line)[1] = "#"
    /\ Contains(Lower(line), MetaKey)

HasMetaCommentLine(file) ==
    \E k \in 1..Len(SplitLines(file)) : IsMetaCommentLine(SplitLines(file)[k])

\* C2: read_backend_meta_test_via_ui returns None, and does not raise, when
\* the descriptor is missing, is empty, cannot be read, or holds no comment
\* line with the metadata key.
C2_UnknownWhenAbsent ==
    pc \in {"meta_read", "meta_read_written"} =>
        /\ descriptor \in {NoFile, Unreadable, <<>>} => loc.meta_test_via_ui = None
        /\ (descriptor \notin {NoFile, Unreadable} /\ ~HasMetaCommentLine(descriptor))
               => loc.meta_test_via_ui = None

\* C2 witness: a non-empty file holding the key, but on no comment line, was
\* read as None.
C2_Witness ==
    /\ pc = "meta_read"
    /\ descriptor \notin {NoFile, Unreadable, <<>>}
    /\ Contains(descriptor, MetaKey \o TrueText)
    /\ ~HasMetaCommentLine(descriptor)
    /\ loc.meta_test_via_ui = None

(***************************************************************************)
(* Properties of the drain (SpecDrain)                                     *)
(***************************************************************************)
LogIdx(verb) == {k \in 1..Len(log) : IsS3(log[k], verb)}

\* the list-object-versions calls that were answered with a listing page
PageIdx == {k \in LogIdx("list-object-versions") : log[k].result = "ok" /\ log[k].out = JsonDoc}

\* C3: on a bucket whose head-bucket probe fails, s3_empty_bucket returns
\* normally having issued no "s3 rm", no list-object-versions and no
\* delete-objects call.
C3_MissingBucketNoCalls ==
    (\E k \in LogIdx("head-bucket") : log[k].result # "ok") =>
        /\ pc = "s3_returned"
        /\ exitCode = Running
        /\ LogIdx("rm") = {}
        /\ LogIdx("list-object-versions") = {}
        /\ LogIdx("delete-objects") = {}

\* C3 witness: the probe exited non-zero and the function has returned.
C3_Witness ==
    /\ \E k \in LogIdx("head-bucket") : log[k].result = "fail"
    /\ pc = "s3_returned"
    /\ console = <<"bucket_not_found">>

\* the (Key, VersionId) references a page lists: versions, then delete markers
IsRef(e) == e.Key \notin {NoText, <<>>} /\ e.VersionId \notin {NoText, <<>>}
ListedRefs(page) == SelectSeq(page.Versions, IsRef) \o SelectSeq(page.DeleteMarkers, IsRef)

RECURSIVE AllListed(_)
AllListed(l) ==
    IF l = <<>> THEN <<>>
    ELSE (IF IsS3(Head(l), "list-object-versions") THEN ListedRefs(Head(l).page) ELSE <<>>)
         \o AllListed(Tail(l))

RECURSIVE AllDeleted(_)
AllDeleted(l) ==
    IF l = <<>> THEN <<>>
    ELSE (IF IsS3(Head(l), "delete-objects") THEN Head(l).Objects ELSE <<>>)
         \o AllDeleted(Tail(l))

Ceil(n, d) == (n + d - 1) \div d

RECURSIVE CallsPerPage(_)
CallsPerPage(l) ==
    IF l = <<>> THEN 0
    ELSE (IF IsS3(Head(l), "list-object-versions")
          THEN Ceil(Len(ListedRefs(Head(l).page)), ChunkSize) ELSE 0)
         + CallsPerPage(Tail(l))

ObjectSet(k) == {log[k].Objects[x] : x \in 1..Len(log[k].Objects)}

BatchesDisjoint ==
    \A j, k \in LogIdx("delete-objects") : j # k => ObjectSet(j) \cap ObjectSet(k) = {}

BatchesCoverListing == AllDeleted(log) = AllListed(log)

DrainFinished == pc = "s3_returned" /\ exitCode = Running

\* C4 as stated: a finished drain of a listing with N+M > 1000 references over
\* all its pages has issued exactly ceil((N+M)/1000) delete-objects calls,
\* pairwise disjoint, covering exactly the listed references.
C4_AsStated ==
    (DrainFinished /\ Len(AllListed(log)) > ChunkSize) =>
        /\ Cardinality(LogIdx("delete-objects")) = Ceil(Len(AllListed(log)), ChunkSize)
        /\ BatchesDisjoint
        /\ BatchesCoverListing

\* C4 amended: a finished drain of a listing with N+M > 1000 references has
\* issued, for each page p, ceil(n_p/1000) delete-objects calls (n_p the
\* references of page p), which is ceil((N+M)/1000) for a one-page listing;
\* the batches are pairwise disjoint and cover exactly the listed references.
C4_BatchesPerPage ==
    (DrainFinished /\ Len(AllListed(log)) > ChunkSize) =>
        /\ Cardinality(LogIdx("delete-objects")) = CallsPerPage(log)
        /\ (Cardinality(PageIdx) = 1 =>
               Cardinality(LogIdx("delete-objects")) = Ceil(Len(AllListed(log)), ChunkSize))
        /\ BatchesDisjoint
        /\ BatchesCoverListing
        /\ \A k \in LogIdx("delete-objects") : Len(log[k].Objects) <= ChunkSize

\* C4 witness: a finished drain of two pages holding more than 1000
\* references together, with more calls than ceil((N+M)/1000).
C4_Witness ==
    /\ DrainFinished
    /\ Cardinality(PageIdx) = 2
    /\ Len(AllListed(log)) > ChunkSize
    /\ Cardinality(LogIdx("delete-objects")) > Ceil(Len(AllListed(log)), ChunkSize)

\* the delete-objects calls issued for the page listed at position j
DeletesOfPage(j) ==
    {k \in LogIdx("delete-objects") :
        k > j /\ \A x \in LogIdx("list-object-versions") : ~(j < x /\ x < k)}

\* the loop body of the page listed at position j has been left
PageDone(j) == (\E x \in LogIdx("list-object-versions") : x > j) \/ pc # "s3_delete"

OneCallWithAllRefs(j) ==
    /\ Cardinality(DeletesOfPage(j)) = 1
    /\ \A k \in DeletesOfPage(j) : log[k].Objects = ListedRefs(log[j].page)

\* C5 as stated: for a page with at most 1000 entries exactly one
\* delete-objects call is issued, holding every pair of the page.
C5_AsStated ==
    \A j \in PageIdx :
        (PageDone(j) /\ Len(ListedRefs(log[j].page)) <= ChunkSize) => OneCallWithAllRefs(j)

\* C5 amended: for a page with between 1 and 1000 references exactly one
\* delete-objects call is issued, holding every (Key, VersionId) pair of the
\* page's Versions and of its DeleteMarkers; for a page without references no
\* call is issued.
C5_OneBatchPerSmallPage ==
    \A j \in PageIdx :
        PageDone(j) =>
            /\ Len(ListedRefs(log[j].page)) \in 1..ChunkSize => OneCallWithAllRefs(j)
            /\ Len(ListedRefs(log[j].page)) = 0 => DeletesOfPage(j) = {}

\* C5 witness: a page of 3 versions and 1 delete marker was deleted by one
\* call with 4 pairs.
C5_Witness ==
    \E j \in PageIdx :
        /\ Len(log[j].page.Versions) = 3
        /\ Len(log[j].page.DeleteMarkers) = 1
        /\ PageDone(j)
        /\ \E k \in DeletesOfPage(j) : Len(log[k].Objects) = 4 /\ log[k].result = "ok"

MarkersMissing(page) ==
    /\ page.IsTruncated
    /\ page.NextKeyMarker \in {NoText, <<>>}
    /\ page.NextVersionIdMarker \in {NoText, <<>>}

\* C6: after a response with IsTruncated=true and neither NextKeyMarker nor
\* NextVersionIdMarker no further list-object-versions call is issued, and
\* once that page's delete calls are through the function has returned with
\* a warning.
C6_StopsWithoutMarkers ==
    \A j \in PageIdx :
        MarkersMissing(log[j].page) =>
            /\ \A x \in LogIdx("list-object-versions") : x <= j
            /\ (pc # "s3_delete" /\ exitCode = Running) =>
                   /\ pc = "s3_returned"
                   /\ \E w \in 1..Len(console) : console[w] = "markers_missing"

\* C6 witness: such a response with entries to delete, after which the
\* function has returned with the warning.
C6_Witness ==
    /\ pc = "s3_returned"
    /\ \E j \in PageIdx : MarkersMissing(log[j].page) /\ DeletesOfPage(j) # {}
    /\ \E w \in 1..Len(console) : console[w] = "markers_missing"

(***************************************************************************)
(* Properties of the teardown (SpecTeardown)                               *)
(***************************************************************************)
TfIdx(verb, cwd) ==
    {k \in 1..Len(log) : log[k].tool = "terraform" /\ log[k].verb = verb /\ log[k].cwd = cwd}

OutputIdx(name) ==
    {k \in 1..Len(log) : log[k].tool = "terraform" /\ log[k].verb = "output"
                         /\ log[k].name = name}

\* the commands of a drain: head-bucket, s3 rm, list-object-versions, delete-objects
S3Idx ==
    LogIdx("head-bucket") \cup LogIdx("rm") \cup LogIdx("list-object-versions")
    \cup LogIdx("delete-objects")

FrontendIdx == {k \in S3Idx : log[k].bucket = WebBucket}
StateIdx == {k \in S3Idx : log[k].bucket = StateBucket}
RootDestroyIdx == TfIdx("destroy", "ROOT")
BootDestroyIdx == TfIdx("destroy", "BOOT")

Warned(w) == \E k \in 1..Len(console) : console[k] = w

\* C7: the destructive stages of a teardown run come in the order: read of the
\* metadata flag, drain of the frontend bucket, destroy of the root stack,
\* drain of the state bucket, destroy of the bootstrap stack.  The state
\* bucket is never drained, and the bootstrap stack never destroyed, before
\* the root destroy command has been issued.
C7_TeardownOrder ==
    /\ (S3Idx # {} \/ RootDestroyIdx # {} \/ BootDestroyIdx # {})
           => loc.meta_test_via_ui \in {PyTrue, PyFalse}
    /\ Cardinality(RootDestroyIdx) <= 1
    /\ Cardinality(BootDestroyIdx) <= 1
    /\ S3Idx = FrontendIdx \cup StateIdx
    /\ \A k \in FrontendIdx : \A r \in RootDestroyIdx : k < r
    /\ \A k \in StateIdx : \E r \in RootDestroyIdx : r < k /\ log[r].result = "ok"
    /\ \A b \in BootDestroyIdx :
           /\ \E r \in RootDestroyIdx : r < b /\ log[r].result = "ok"
           /\ \A k \in S3Idx : k < b

\* C7 witness: a run that emptied both buckets with delete-objects calls,
\* destroyed both stacks and ended with status 0.
C7_Witness ==
    /\ pc = "exited"
    /\ exitCode = 0
    /\ FrontendIdx \cap LogIdx("delete-objects") # {}
    /\ StateIdx \cap LogIdx("delete-objects") # {}
    /\ BootDestroyIdx # {}

\* the output query came back without a value: terraform exited non-zero, or
\* printed nothing
OutputAbsent(e) == e.result = "fail" \/ (e.result = "ok" /\ e.out = <<>>)

IsRootDestroy(e) == e.tool = "terraform" /\ e.verb = "destroy" /\ e.cwd = "ROOT"

\* C8: when the flag reads true but the soft query of website_bucket_name
\* yields nothing, the run warns, does not fail, issues no drain command for
\* a frontend bucket and goes on to the root destroy command.
C8_AbsentWebsiteOutput ==
    \A q \in OutputIdx("website_bucket_name") :
        OutputAbsent(log[q]) =>
            /\ loc.meta_test_via_ui = PyTrue
            /\ Warned("website_bucket_not_found")
            /\ FrontendIdx = {}
            /\ \A k \in S3Idx : \E r \in RootDestroyIdx : r < k
            /\ IF Len(log) = q
               THEN pc = "d_destroy_root" /\ exitCode = Running
               ELSE IsRootDestroy(log[q + 1])

\* C8 witness: the query exited non-zero and the root destroy followed and
\* succeeded.
C8_Witness ==
    \E q \in OutputIdx("website_bucket_name") :
        /\ log[q].result = "fail"
        /\ Len(log) > q
        /\ IsRootDestroy(log[q + 1])
        /\ log[q + 1].result = "ok"

\* C9: when the metadata read yields None the flag is taken as false: the
\* website_bucket_name output is never queried and no head-bucket, rm, list
\* or delete command is issued for a frontend bucket.
C9_UnknownFlagIsFalse ==
    /\ (descriptor = NoFile /\ loc.meta_test_via_ui # None) => Warned("meta_not_found")
    /\ Warned("meta_not_found") =>
           /\ loc.meta_test_via_ui = PyFalse
           /\ OutputIdx("website_bucket_name") = {}
           /\ FrontendIdx = {}
           /\ \A k \in S3Idx : \E r \in RootDestroyIdx : r < k

\* C9 witness: a run whose descriptor holds an undecidable flag, which went
\* on to empty the state bucket and ended with status 0.
C9_Witness ==
    /\ Warned("meta_not_found")
    /\ descriptor # NoFile
    /\ StateIdx \cap LogIdx("delete-objects") # {}
    /\ pc = "exited"
    /\ exitCode = 0


(***************************************************************************)
(* Properties of provisioning (SpecProvision)                              *)
(***************************************************************************)
BootOutputIdx(name) ==
    {q \in 1..Len(log) : /\ log[q].tool = "terraform" /\ log[q].verb = "output"
                         /\ log[q].cwd = "BOOT" /\ log[q].name = name}

RootCommandIdx ==
    {q \in 1..Len(log) : log[q].tool = "terraform" /\ log[q].cwd = "ROOT"}

DescriptorWritten ==
    \E c \in 1..Len(console) : console[c] = "backend_hcl_ready"

FailedWithoutDescriptor ==
    /\ pc = "exited"
    /\ exitCode = 1
    /\ ~DescriptorWritten
    /\ RootCommandIdx = {}

\* C10: when the primary bootstrap output backend_s3_bucket_name is absent
\* (its query exits non-zero or prints nothing), the next command of the run is
\* the query of backend_s3_bucket_arn and the run goes on with that value; when
\* that one is absent as well, the run has exit code 1, has not written
\* backend.hcl and has run no root-stack command.
C10_FallbackToArn ==
    \A q \in BootOutputIdx("backend_s3_bucket_name") :
        OutputAbsent(log[q]) =>
            IF Len(log) = q
            THEN pc = "p_output_arn" /\ exitCode = Running
            ELSE /\ log[q + 1].tool = "terraform"
                 /\ log[q + 1].verb = "output"
                 /\ log[q + 1].name = "backend_s3_bucket_arn"
                 /\ (OutputAbsent(log[q + 1]) => FailedWithoutDescriptor)
                 /\ (log[q + 1].result = "ok" /\ Truthy(log[q + 1].out)
                        => loc.bucket = log[q + 1].out)

RootInitIdx == TfIdx("init", "ROOT")
MigrateIdx == {k \in RootInitIdx : log[k].flag = "-migrate-state"}
ReconfigureIdx == {k \in RootInitIdx : log[k].flag = "-reconfigure"}
RootApplyIdx == TfIdx("apply", "ROOT")

Failed(code) == pc = "exited" /\ exitCode = code

\* C11: a provisioning run issues init -migrate-state at most once, and exactly
\* once before any root apply; init -reconfigure is issued only right after a
\* migrate that did not succeed, at most once, and always after a migrate
\* that exited non-zero; when the reconfigure fails too it is the last command
\* of the run, the run has exit code 1, and no root apply is issued.
C11_MigrateThenReconfigure ==
    /\ Cardinality(MigrateIdx) <= 1
    /\ Cardinality(ReconfigureIdx) <= 1
    /\ RootInitIdx = MigrateIdx \cup ReconfigureIdx
    /\ (RootApplyIdx # {} \/ pc = "p_root_apply") => Cardinality(MigrateIdx) = 1
    /\ \A r \in ReconfigureIdx : r - 1 \in MigrateIdx /\ log[r - 1].result # "ok"
    /\ \A k \in MigrateIdx :
           log[k].result = "fail" =>
               IF Len(log) = k THEN pc = "p_init_reconfigure" /\ exitCode = Running
               ELSE k + 1 \in ReconfigureIdx
    /\ \A r \in ReconfigureIdx :
           log[r].result # "ok" =>
               /\ Len(log) = r
               /\ Failed(1)
               /\ RootApplyIdx = {}

\* C11 witness: the migrate and then the reconfigure exited non-zero.
C11_Witness ==
    /\ \E k \in MigrateIdx : log[k].result = "fail"
    /\ \E r \in ReconfigureIdx : log[r].result = "fail"
    /\ pc = "exited"

AllSucceeded == \A k \in 1..Len(log) : log[k].result = "ok"

OutputGiven(name) == \E k \in OutputIdx(name) : log[k].result = "ok" /\ Truthy(log[k].out)

NpmIdx == {k \in 1..Len(log) : log[k].tool = "npm"}
SyncIdx == {k \in 1..Len(log) : log[k].tool = "aws" /\ log[k].verb = "sync"}

MetaLine(value) == Hash \o <<" ">> \o MetaKey \o value \o NL

\* a run without UI release in which every command succeeded and that found
\* a bootstrap bucket output and the api_base_url output
PlainRunDone ==
    /\ pc = "exited"
    /\ loc.release_ui = PyFalse
    /\ AllSucceeded
    /\ OutputGiven("backend_s3_bucket_name") \/ OutputGiven("backend_s3_bucket_arn")
    /\ OutputGiven("api_base_url")

\* C12: a provisioning run with UI release = false in which every command
\* succeeds and the bucket and api_base_url outputs exist ends with exit code
\* 0, with a descriptor whose first line is "# meta.test_via_ui=false", with
\* the root apply executed, and without any npm or s3 sync command.
C12_PlainRun ==
    PlainRunDone =>
        /\ exitCode = 0
        /\ StartsWith(descriptor, MetaLine(FalseText))
        /\ \E k \in RootApplyIdx : log[k].result = "ok"
        /\ NpmIdx = {}
        /\ SyncIdx = {}

\* C12 witness: such a run has ended, with the descriptor and .env.local written.
C12_Witness ==
    /\ PlainRunDone
    /\ DescriptorWritten
    /\ frontend_env # NoFile

\* C13: when the final confirmation of a teardown run is declined or
\* cancelled, the run has exit code 0 and has issued no terraform init, no
\* drain command and no terraform destroy.
C13_DeclinedTeardown ==
    loc.confirm \in {PyFalse, None} =>
        /\ Failed(0)
        /\ Warned("cancelled_by_user")
        /\ TfIdx("init", "ROOT") \cup TfIdx("init", "BOOT") = {}
        /\ S3Idx = {}
        /\ RootDestroyIdx \cup BootDestroyIdx = {}

\* C13 witness: the prompt was cancelled and the run is over.
C13_Witness ==
    /\ loc.confirm = None
    /\ pc = "exited"
    /\ script \in DestroyScripts

(***************************************************************************)
(* Properties of any run (SpecRun)                                         *)
(***************************************************************************)
\* the commands whose failure must end the run: bootstrap init and apply of a
\* provisioning run, root apply, root destroy, a delete-objects batch,
\* bootstrap destroy
Mandatory(e) ==
    \/ /\ script \in ProvisionScripts
       /\ e.tool = "terraform" /\ e.cwd = "BOOT" /\ e.verb \in {"init", "apply"}
    \/ e.tool = "terraform" /\ e.cwd = "ROOT" /\ e.verb = "apply"
    \/ e.tool = "terraform" /\ e.verb = "destroy"
    \/ IsS3(e, "delete-objects")

\* C14: when a mandatory command fails it is the last command of the run and
\* the run has exit code 1; after a failed root destroy there is no drain of
\* the state bucket and no destroy of the bootstrap stack.
C14_MandatoryFailureHalts ==
    /\ \A k \in 1..Len(log) :
           Mandatory(log[k]) /\ log[k].result # "ok" => Len(log) = k /\ Failed(1)
    /\ \A r \in RootDestroyIdx :
           log[r].result # "ok" => StateIdx = {} /\ BootDestroyIdx = {}

\* C14 witness: the root destroy exited non-zero after the frontend bucket
\* had been emptied.
C14_Witness ==
    /\ \E r \in RootDestroyIdx : log[r].result = "fail"
    /\ FrontendIdx \cap LogIdx("delete-objects") # {}
    /\ pc = "exited"

InitAgainstDescriptorSucceeded(k) ==
    \E i \in RootInitIdx : i < k /\ log[i].result = "ok" /\ log[i].backend_config

\* C15 as stated: every root apply and every root destroy comes after a
\* successful root init against the descriptor in the same run.
C15_AsStated ==
    \A k \in RootApplyIdx \cup RootDestroyIdx : InitAgainstDescriptorSucceeded(k)

\* C15: a root apply comes only after a successful root init against the
\* descriptor in the same run.  A root destroy comes only after a root init
\* has been attempted in the same run; when that init of a teardown run exits
\* non-zero the run warns and goes on towards the root destroy.
C15_InitBeforeApply ==
    /\ \A k \in RootApplyIdx : InitAgainstDescriptorSucceeded(k)
    /\ \A d \in RootDestroyIdx : \E i \in RootInitIdx : i < d
    /\ script \in DestroyScripts =>
           \A i \in RootInitIdx :
               log[i].result = "fail" =>
                   /\ Warned("root_init_failed")
                   /\ Len(log) = i => pc \in {"d_website_output", "d_destroy_root"}

\* C15 witness: a teardown run destroyed the root stack after its init had
\* exited non-zero.
C15_Witness ==
    /\ script \in DestroyScripts
    /\ \E i \in RootInitIdx : log[i].result = "fail"
    /\ \E d \in RootDestroyIdx : log[d].result = "ok"

(***************************************************************************)
(* Further properties of provisioning (SpecProvision)                      *)
(***************************************************************************)
\* C16: when the first root init is about to be issued, and at every root
\* init issued, the descriptor has been written in this run and holds the
\* metadata line and the settings of this run; every root init carries
\* -backend-config for it.
C16_DescriptorBeforeInit ==
    (pc \in {"p_init_migrate", "p_init_reconfigure"} \/ RootInitIdx # {}) =>
        /\ DescriptorWritten
        /\ descriptor = write_backend_hcl_with_meta(loc.bucket, SomeKey, SomeRegion,
                                                    loc.release_ui = PyTrue)
        /\ HasMetaCommentLine(descriptor)
        /\ \A i \in RootInitIdx : log[i].backend_config

\* C16 witness: both inits were issued in a run that found an older descriptor.
C16_Witness ==
    /\ MigrateIdx # {}
    /\ ReconfigureIdx # {}
    /\ loc.release_ui = PyFalse

\* C17: when the api_base_url query exits non-zero or prints nothing, the run
\* has exit code 1, .env.local has not been written, and no npm or s3 sync
\* command is issued.
C17_ApiUrlMandatory ==
    \A k \in OutputIdx("api_base_url") :
        OutputAbsent(log[k]) =>
            /\ Failed(1)
            /\ Len(log) = k
            /\ \E a \in RootApplyIdx : log[a].result = "ok"
            /\ frontend_env = NoFile
            /\ NpmIdx = {}
            /\ SyncIdx = {}

\* C17 witness: UI release was requested and api_base_url was not defined.
C17_Witness ==
    /\ \E k \in OutputIdx("api_base_url") : log[k].result = "fail"
    /\ loc.release_ui = PyTrue
    /\ pc = "exited"

BuildIdx == {k \in NpmIdx : log[k].verb \in {"ci", "install", "run build"}}

\* C18: with UI release requested, an absent website_bucket_name output ends
\* the run with exit code 1 before any npm ci/install/build or s3 sync
\* command; an absent website_url output alone does not end the run: the
\* next command is the dependency install of the frontend build.
C18_UrlIsAdvisory ==
    /\ \A k \in OutputIdx("website_bucket_name") :
           OutputAbsent(log[k]) =>
               /\ BuildIdx = {}
               /\ SyncIdx = {}
               /\ pc \in {"p_website_url", "exited"}
               /\ pc = "exited" => exitCode = 1
    /\ \A k \in OutputIdx("website_url") :
           (OutputAbsent(log[k]) /\ OutputGiven("website_bucket_name")) =>
               IF Len(log) = k THEN pc = "p_npm_install" /\ exitCode = Running
               ELSE k + 1 \in BuildIdx

\* C19: when the bucket comes from the backend_s3_bucket_arn output, the
\* descriptor written in this run names the bare bucket, without the
\* arn:aws:s3::: prefix.
C19_ArnNormalised ==
    \A k \in BootOutputIdx("backend_s3_bucket_arn") :
        (log[k].result = "ok" /\ Truthy(log[k].out) /\ DescriptorWritten) =>
            /\ descriptor = write_backend_hcl_with_meta(parse_bucket_name(log[k].out),
                                                        SomeKey, SomeRegion,
                                                        loc.release_ui = PyTrue)
            /\ ~Contains(descriptor, ArnPrefix)

\* the queries the teardown scripts make through capture_soft
SoftQueryIdx ==
    {k \in 1..Len(log) : /\ script \in DestroyScripts
                         /\ log[k].tool = "terraform" /\ log[k].verb = "output"}

\* C20: a capture_soft query that exits non-zero, or whose executable is not
\* found, never ends the run: the run goes on after it, in both teardown
\* scripts.
C20_SoftNeverTerminates ==
    \A k \in SoftQueryIdx :
        (log[k].result # "ok" /\ Len(log) = k) => pc # "exited" /\ exitCode = Running

(***************************************************************************)
(* Further properties of the teardown (SpecTeardown)                       *)
(***************************************************************************)
ListIdx == LogIdx("list-object-versions")

\* C21: a list-object-versions call that prints something other than JSON is
\* the last command of the run and the run has exit code 1: the output is not
\* taken for an empty page, and no list, delete or destroy command follows.
C21_BadJsonIsFatal ==
    \A k \in ListIdx :
        (log[k].result = "ok" /\ log[k].out = NotJson) =>
            /\ Len(log) = k
            /\ Failed(1)

\* C21 witness: the listing of the frontend bucket printed something that is
\* not JSON, before the root stack was destroyed.
C21_Witness ==
    /\ \E k \in ListIdx \cap FrontendIdx : log[k].result = "ok" /\ log[k].out = NotJson
    /\ pc = "exited"

(***************************************************************************)
(* Further properties of the drain (SpecDrain)                             *)
(***************************************************************************)
RmIdx == LogIdx("rm")

\* C22: a drain of an existing bucket issues "s3 rm --recursive" once, before
\* the first listing and right after the head-bucket probe; when it exits
\* non-zero the run warns, does not end, and the next command is the first
\* list-object-versions call.
C22_RmBestEffort ==
    /\ Cardinality(RmIdx) <= 1
    /\ \A l \in ListIdx : \E r \in RmIdx : r < l
    /\ \A r \in RmIdx : r > 1 /\ IsS3(log[r - 1], "head-bucket") /\ log[r - 1].result = "ok"
    /\ \A r \in RmIdx :
           log[r].result = "fail" =>
               /\ Warned("rm_failed")
               /\ IF Len(log) = r THEN pc = "s3_list" /\ exitCode = Running
                  ELSE r + 1 \in ListIdx

\* C22 witness: "s3 rm" exited non-zero and the versioned pass deleted objects.
C22_Witness ==
    /\ \E r \in RmIdx : log[r].result = "fail"
    /\ LogIdx("delete-objects") # {}
    /\ DrainFinished

(***************************************************************************)
(* The bootstrap stack in the teardown (SpecTeardown)                      *)
(***************************************************************************)
BootInitIdx == TfIdx("init", "BOOT")

\* C23: when the init of the bootstrap stack exits non-zero in a teardown run,
\* the run warns and goes on: the next command is the soft query of
\* backend_s3_bucket_name; a bucket that a query finds is drained next, and a
\* run that then ends with exit code 0 has destroyed the bootstrap stack.
C23_BootInitBestEffort ==
    \A i \in BootInitIdx :
        log[i].result = "fail" =>
            /\ Warned("boot_init_failed")
            /\ IF Len(log) = i THEN pc = "d_output_name" /\ exitCode = Running
               ELSE /\ i + 1 \in OutputIdx("backend_s3_bucket_name")
                    /\ log[i + 1].cwd = "BOOT"
            /\ \A q \in OutputIdx("backend_s3_bucket_name") \cup OutputIdx("backend_s3_bucket_arn") :
                   (q > i /\ log[q].result = "ok" /\ Truthy(log[q].out)) =>
                       IF Len(log) = q THEN pc = "s3_empty_bucket" /\ exitCode = Running
                       ELSE q + 1 \in StateIdx /\ IsS3(log[q + 1], "head-bucket")
            /\ Failed(0) => \E b \in BootDestroyIdx : b > i /\ log[b].result = "ok"

\* C23 witness: after a failed bootstrap init the state bucket was emptied and
\* the bootstrap stack destroyed.
C23_Witness ==
    /\ \E i \in BootInitIdx : log[i].result = "fail"
    /\ StateIdx \cap LogIdx("delete-objects") # {}
    /\ Failed(0)

(***************************************************************************)
(* The frontend publish step (SpecProvision)                               *)
(***************************************************************************)
InstallIdx == {k \in NpmIdx : log[k].verb \in {"ci", "install"}}
RunBuildIdx == {k \in NpmIdx : log[k].verb = "run build"}

\* the build output directory the script accepts exists
BuildOutputExists == loc.dist = PyTrue \/ loc.alt_build = PyTrue

\* C24: s3 sync --delete to the website bucket is issued only right after a
\* successful npm run build, itself right after a successful dependency
\* install (npm ci with package-lock.json, npm install without), and only
\* when the build output directory exists; when the build succeeded and no
\* build output directory the script accepts exists, the run has exit code 1
\* and no sync is issued.
C24_SyncAfterBuild ==
    /\ \A i \in InstallIdx :
           log[i].verb = (IF loc.pkg_lock = PyTrue THEN "ci" ELSE "install")
    /\ \A b \in RunBuildIdx : b - 1 \in InstallIdx /\ log[b - 1].result = "ok"
    /\ \A y \in SyncIdx :
           /\ y - 1 \in RunBuildIdx /\ log[y - 1].result = "ok"
           /\ BuildOutputExists
           /\ log[y].name = (IF loc.dist = PyTrue THEN "dist" ELSE "build")
           /\ log[y].bucket = loc.website_bucket
           /\ log[y].flag = "--delete"
    /\ \A b \in RunBuildIdx :
           (log[b].result = "ok" /\ loc.dist = PyFalse /\ loc.alt_build # PyTrue) =>
               /\ Failed(1)
               /\ Len(log) = b
               /\ SyncIdx = {}

\* C24 witness: the build succeeded without leaving a build output directory.
C24_Witness ==
    /\ \E b \in RunBuildIdx : log[b].result = "ok"
    /\ loc.dist = PyFalse
    /\ loc.alt_build = PyFalse
    /\ pc = "exited"

(***************************************************************************)
(* The order of a provisioning run (SpecProvision)                         *)
(***************************************************************************)
SucceededBefore(set, k) == \E j \in set : j < k /\ log[j].result = "ok"

BucketOutputIdx ==
    BootOutputIdx("backend_s3_bucket_name") \cup BootOutputIdx("backend_s3_bucket_arn")

PublishIdx == NpmIdx \cup SyncIdx \cup {k \in 1..Len(log) : log[k].tool = "node"}
                \cup OutputIdx("website_bucket_name") \cup OutputIdx("website_url")

\* a command after which the run went on although it did not succeed: only
\* the migrate init (reconfigure follows), the display of all outputs, and an
\* output query that comes back without a value
WentOnAfterFailure(k) == k < Len(log) /\ log[k].result # "ok"

\* C25: a provisioning run takes its steps in this order, each only after the
\* one before it has succeeded: bootstrap init, bootstrap apply, bootstrap
\* output query, descriptor write, root init (migrate, then reconfigure on
\* failure), root apply, api_base_url query, write of .env.local, frontend
\* publish (only when UI release was requested).
C25_ProvisionOrder ==
    /\ \A a \in TfIdx("apply", "BOOT") : SucceededBefore(TfIdx("init", "BOOT"), a)
    /\ \A q \in BucketOutputIdx : SucceededBefore(TfIdx("apply", "BOOT"), q)
    /\ DescriptorWritten =>
           OutputGiven("backend_s3_bucket_name") \/ OutputGiven("backend_s3_bucket_arn")
    /\ \A i \in RootInitIdx :
           /\ DescriptorWritten
           /\ \A q \in BucketOutputIdx : q < i
    /\ \A r \in ReconfigureIdx : \A g \in MigrateIdx : g < r
    /\ \A a \in RootApplyIdx : SucceededBefore(RootInitIdx, a)
    /\ \A q \in OutputIdx("api_base_url") : SucceededBefore(RootApplyIdx, q)
    /\ frontend_env # NoFile => OutputGiven("api_base_url")
    /\ \A u \in PublishIdx :
           /\ frontend_env # NoFile
           /\ loc.release_ui = PyTrue
           /\ \A q \in OutputIdx("api_base_url") : q < u
    /\ \A k \in 1..Len(log) :
           WentOnAfterFailure(k) =>
               \/ k \in MigrateIdx /\ log[k].result = "fail" /\ k + 1 \in ReconfigureIdx
               \/ log[k].verb = "output" /\ log[k].name = ""
               \/ log[k].verb = "output" /\ log[k].result = "fail" /\ ~IsWin(script)

\* C25 witness: a run with UI release went through every step, the migrate
\* init having failed, and synchronised the frontend.
C25_Witness ==
    /\ \E g \in MigrateIdx : log[g].result = "fail"
    /\ \E y \in SyncIdx : log[y].result = "ok"
    /\ Failed(0)

(***************************************************************************)
(* Further properties of any run (SpecRun)                                 *)
(***************************************************************************)
\* the command that failed and thereby ended the run
EndedRun(k) == Len(log) = k /\ log[k].result # "ok" /\ Failed(1)

\* C26: a command whose failure ends the run was preceded on the console by
\* a line with the command and its working directory.
C26_FailureIsPrecededByEcho ==
    \A k \in 1..Len(log) : EndedRun(k) => log[k].echo = "cmd_cwd"

SideEffectIdx ==
    {k \in 1..Len(log) :
        \/ log[k].tool = "terraform" /\ log[k].verb \in {"init", "apply", "destroy"}
        \/ log[k].tool = "aws" /\ log[k].verb \in {"rm", "sync", "delete-objects"}}

MissingTool == \E t \in DOMAIN loc.need : loc.need[t] = PyFalse

\* C27: when a tool the run needs is missing (aws, terraform, npm or node),
\* the run has exit code 1 and has issued no terraform init/apply/destroy, no
\* s3 rm or sync and no delete-objects command.
C27_MissingToolFailsFirst ==
    MissingTool => Failed(1) /\ SideEffectIdx = {}

\* C28: when the operator cancels a prompt (profile, UI release, region,
\* state key, teardown confirmation), the run ends there with exit code 0.
C28_CancelIsCleanExit ==
    loc.cancelled # Unset => Failed(0)

(***************************************************************************)
(* Pagination and batches of the drain (SpecDrain)                         *)
(***************************************************************************)
\* the list-object-versions calls that were answered with a page (an empty
\* output counts as the page {})
AnsweredIdx == {k \in ListIdx : log[k].result = "ok" /\ log[k].out # NotJson}

\* the list call that follows list call j, if any
NextList(j) == {k \in ListIdx : k > j /\ \A x \in ListIdx : x > j => k <= x}

MarkerArg(value) == IF Truthy(value) THEN value ELSE NoText

\* C29: the first list-object-versions call carries no marker; every later
\* one follows a response with IsTruncated true and carries that response's
\* NextKeyMarker and NextVersionIdMarker, each only if non-empty; after a
\* response whose IsTruncated is false or missing no further list call is
\* made, and the drain returns only after that page's entries were deleted.
C29_Pagination ==
    /\ \A k \in ListIdx :
           (\A x \in ListIdx : k <= x) =>
               log[k].key_marker = NoText /\ log[k].version_id_marker = NoText
    /\ \A j \in ListIdx : \A k \in NextList(j) :
           /\ j \in AnsweredIdx
           /\ log[j].page.IsTruncated
           /\ log[k].key_marker = MarkerArg(log[j].page.NextKeyMarker)
           /\ log[k].version_id_marker = MarkerArg(log[j].page.NextVersionIdMarker)
           /\ Truthy(log[k].key_marker) \/ Truthy(log[k].version_id_marker)
    /\ \A j \in AnsweredIdx :
           ~log[j].page.IsTruncated =>
               /\ NextList(j) = {}
               /\ pc \notin {"s3_list"}
               /\ DrainFinished =>
                      AllDeleted(SubSeq(log, j + 1, Len(log))) = ListedRefs(log[j].page)

\* C29 witness: a second list call carried both markers of the first response
\* and the drain ended at the second response, whose entries were deleted.
C29_Witness ==
    /\ \E k \in ListIdx : log[k].key_marker = KM /\ log[k].version_id_marker = VM
    /\ \E j \in PageIdx : ~log[j].page.IsTruncated /\ DeletesOfPage(j) # {}
    /\ Cardinality(ListIdx) = 2
    /\ DrainFinished

DeleteIdx == LogIdx("delete-objects")

\* C30: every delete-objects call carries between 1 and 1000 references, each
\* with a Key and a VersionId, and Quiet = true; a page without entries gets
\* no delete-objects call.
C30_DeleteBatches ==
    /\ \A k \in DeleteIdx :
           /\ Len(log[k].Objects) >= 1
           /\ Len(log[k].Objects) <= 1000
           /\ \A x \in 1..Len(log[k].Objects) :
                  Truthy(log[k].Objects[x].Key) /\ Truthy(log[k].Objects[x].VersionId)
           /\ log[k].Quiet
    /\ \A j \in AnsweredIdx :
           (log[j].page.Versions = <<>> /\ log[j].page.DeleteMarkers = <<>>) =>
               DeletesOfPage(j) = {}

\* C30 witness: a page of 2001 entries was deleted in three calls, and a page
\* without entries followed by another page was listed.
C30_Witness ==
    /\ \E k \in DeleteIdx : Len(log[k].Objects) = 1000
    /\ \E k \in DeleteIdx : Len(log[k].Objects) = 1
    /\ \E j \in PageIdx : /\ log[j].page.Versions = <<>>
                          /\ log[j].page.DeleteMarkers = <<>>
                          /\ NextList(j) # {}

(***************************************************************************)
(* Termination of the drain (SpecDrainLive)                                *)
(***************************************************************************)
\* s3_empty_bucket has returned, or the process has ended
DrainOver == pc \in {"s3_returned", "exited"}

\* C31: whatever the list-object-versions calls answer, the versioned pass
\* eventually stops: s3_empty_bucket returns or the process exits.
C31_DrainTerminates == <>DrainOver

(***************************************************************************)
(* Values the reader accepts (SpecMeta)                                    *)
(***************************************************************************)
\* the line, trimmed and lower-cased, starts with '#' and holds the key
MatchingLine(line) ==
    StartsWith(Lower(Strip(line)), Hash) /\ Contains(Lower(Strip(line)), MetaKey)

\* the text after the key on the trimmed, lower-cased line
TextAfterKey(line) == AfterFirst(Lower(Strip(line)), MetaKey)

DescriptorLines == SplitLines(descriptor)

DescriptorRead ==
    /\ pc \in {"meta_read", "meta_read_written"}
    /\ descriptor \notin {NoFile, Unreadable}

\* C32: the reader's result is True or False only by a matching comment line
\* whose text after the key is exactly "true" or "false"; a matching comment
\* line with any other text after the key makes the result for the file
\* None; a line that does not start with '#' never decides.
C32_OnlyLiterals ==
    DescriptorRead =>
        /\ (\E i \in 1..Len(DescriptorLines) :
                /\ MatchingLine(DescriptorLines[i])
                /\ TextAfterKey(DescriptorLines[i]) \notin {TrueText, FalseText})
            => loc.meta_test_via_ui = None
        /\ loc.meta_test_via_ui # None =>
               \E i \in 1..Len(DescriptorLines) :
                   /\ MatchingLine(DescriptorLines[i])
                   /\ TextAfterKey(DescriptorLines[i]) \in {TrueText, FalseText}
                   /\ loc.meta_test_via_ui = PyBool(TextAfterKey(DescriptorLines[i]) = TrueText)

(***************************************************************************)
(* The descriptor's flag and the deployed state (SpecRuns)                 *)
(***************************************************************************)
\* the most recent successful root apply was performed with UI release = true
DeployedWithUi ==
    Deployed(log) # <<>> /\ Deployed(log)[1].flag = "test_via_ui=true"

\* C33: after any sequence of provisioning runs, each of which may have
\* failed at any command, if the most recent successful root apply was
\* performed with UI release = true then the flag read from the descriptor
\* is true.
C33_FlagAgreesWithDeployed ==
    (pc = "exited" /\ DeployedWithUi) =>
        read_backend_meta_test_via_ui(descriptor) = PyTrue

(***************************************************************************)
(* The descriptor and the state bucket in a teardown (SpecTeardown)        *)
(***************************************************************************)
\* C34: no step of a teardown run changes backend.hcl: the file a run finds,
\* or its absence, is what the run leaves, whether it is cancelled, fails at
\* a command or destroys everything.
C34_DescriptorUntouched == [][descriptor' = descriptor]_vars

\* C34 witness: a confirmed teardown has destroyed both stacks and ended
\* with status 0, and backend.hcl is still there with its flag.
C34_Witness ==
    /\ pc = "exited" /\ exitCode = 0
    /\ loc.confirm = PyTrue
    /\ \E k \in BootDestroyIdx : log[k].result = "ok"
    /\ read_backend_meta_test_via_ui(descriptor) = PyTrue

\* the two queries of the state bucket's name both came back without a value
BackendOutputsAbsent(k) ==
    /\ k \in BootOutputIdx("backend_s3_bucket_arn")
    /\ OutputAbsent(log[k])
    /\ \E q \in BootOutputIdx("backend_s3_bucket_name") : q < k /\ OutputAbsent(log[q])

\* C35: when neither backend_s3_bucket_name nor backend_s3_bucket_arn yields
\* a value, the run warns, issues no head-bucket, rm, list or delete command
\* after the two queries, and goes on to the destroy of the bootstrap stack.
C35_AbsentBackendOutputs ==
    \A k \in 1..Len(log) :
        BackendOutputsAbsent(k) =>
            /\ Warned("backend_bucket_not_found")
            /\ \A j \in S3Idx : j < k
            /\ IF k = Len(log)
               THEN pc = "d_destroy_boot" /\ exitCode = Running
               ELSE k + 1 \in BootDestroyIdx

\* C35 witness: both queries failed, nothing was drained after them, and the
\* bootstrap destroy ran and ended the teardown with status 0.
C35_Witness ==
    /\ \E k \in 1..Len(log) :
           /\ BackendOutputsAbsent(k)
           /\ log[k].result = "fail"
           /\ k + 1 \in BootDestroyIdx
           /\ log[k + 1].result = "ok"
    /\ pc = "exited" /\ exitCode = 0

(***************************************************************************)
(* The region of the session (SpecEnv)                                     *)
(***************************************************************************)
\* C36: every command started after the region prompt has AWS_REGION and
\* AWS_DEFAULT_REGION equal to the region the operator entered, whatever the
\* inherited environment held, so the region the cloud CLI uses is the one
\* passed to terraform as "-var=region=".
C36_RegionOverlay ==
    \A k \in 1..Len(log) :
        /\ log[k].env.AWS_REGION = loc.region
        /\ log[k].env.AWS_DEFAULT_REGION = loc.region
        /\ \A j \in 1..Len(log) :
               log[j].tool = "terraform" => log[j].var_region = log[k].env.AWS_REGION

(***************************************************************************)
(* Validation in the writer function (SpecWriter)                          *)
(***************************************************************************)
\* the member is a string
GivenStr(member) == member.type = "str"

\* the member is absent; a JSON null is taken as absent
Absent(member) == member.type \in {"missing", "null"}

\* the request passes the four checks: a body is present, it parses as JSON,
\* "text" is a string that is non-empty after trimming, "author" is absent
\* or a string
Validated(event) ==
    /\ event.body.present
    /\ event.base64 # "undecodable"
    /\ event.body.out = JsonDoc
    /\ event.body.payload.type = "dict"
    /\ GivenStr(event.body.payload.text)
    /\ Strip(event.body.payload.text.s) # <<>>
    /\ Absent(event.body.payload.author) \/ GivenStr(event.body.payload.author)

\* C37: put_item is called only for a validated request; a request that
\* fails a check gets a 400 response and no write (in a function whose table
\* name is configured); the handler returns a response and never raises.
C37_OnlyValidatedWrites ==
    /\ pc # "w_raised"
    /\ pc = "w_returned" =>
           /\ log # <<>> => Validated(loc.event)
           /\ (loc.event.table_env /\ ~Validated(loc.event)) =>
                  (loc.response.statusCode = 400 /\ log = <<>>)

====
